---- MODULE Spec2Model ----
(***************************************************************************)
(* stalk: the change-detection pipeline.                                   *)
(*                                                                         *)
(*   pkg/watcher  Watcher.Watch      one goroutine per watched kind        *)
(*   pkg/diff     Printer.Print      Added / Modified / Deleted dispatch   *)
(*   pkg/diff     Differ.PrintDiff   projection and rendering              *)
(*   pkg/cache    ResourceCache      last-seen snapshot per object key     *)
(*   pkg/maputil  RemovePath, PruneObject, Path                            *)
(*                                                                         *)
(* Snapshots are *unstructured.Unstructured values: they live in a heap    *)
(* and are passed around by address, so that DeepCopy is observable.       *)
(***************************************************************************)
EXTENDS Integers, Sequences, FiniteSets, TLC

(***************************************************************************)
(* Bounds of the model.                                                    *)
(***************************************************************************)
\* notifications a watch stream delivers in one run
MaxEvents == 3
\* notifications a result channel buffers
MaxChan == 2
\* instants of the clock (1..MaxTime, all after the zero time)
MaxTime == 1
\* the calls of a function made on its own
MaxCalls == 2
\* the segments of a path given to RemovePath on its own
MaxPath == 3
\* the paths given to PruneObject on its own
MaxPaths == 2
\* the dots and words of a path expression given to ParsePath on its own
MaxExpr == 5

(***************************************************************************)
(* Go values.                                                              *)
(***************************************************************************)
\* the nil *unstructured.Unstructured
Nil == 0
\* time.Time{}
ZeroTime == 0
\* the nil error
NoError == "nil"

Times == 1..MaxTime

(***************************************************************************)
(* Generic trees (map[string]interface{}): an object node carries a map    *)
(* from keys to nodes, every other JSON value (string, number, array) is   *)
(* an opaque leaf.                                                         *)
(***************************************************************************)
Leaf(v) == [t |-> "leaf", v |-> v]
Obj(m) == [t |-> "obj", m |-> m]
EmptyMap == <<>>
\* the nil interface{} (a JSON null once decoded) and the nil object pointer
GoNil == [t |-> "nil"]

\* value.(map[string]interface{})
IsMap(node) == node.t = "obj"

\* a float64 NaN: a value encoding/json refuses to encode
NaN == Leaf(<<"NaN">>)

\* all keys of the model in lexical order (YAML and JSON output sort keys)
KeyOrder == <<"a", "apiVersion", "b", "bar", "data", "foo", "kind", "labels",
              "managedFields", "metadata", "name", "namespace", "replicas",
              "resourceVersion", "spec", "status">>

KeyIndex(k) == CHOOSE i \in 1..Len(KeyOrder) : KeyOrder[i] = k

RECURSIVE SortKeys(_)
SortKeys(S) ==
    IF S = {} THEN <<>>
    ELSE LET k == CHOOSE x \in S : \A y \in S : KeyIndex(x) <= KeyIndex(y)
         IN  <<k>> \o SortKeys(S \ {k})

\* faulty variant: a delete that leaves the key in the map
keepKey(m, key) == m

\* delete(obj, key)
MapDelete(m, key) == [k \in (DOMAIN m) \ {key} |-> m[k]]

\* obj[key] = value
MapSet(m, key, value) == [k \in (DOMAIN m) \cup {key} |-> IF k = key THEN value ELSE m[k]]


(***************************************************************************)
(* pkg/maputil: Path.                                                      *)
(***************************************************************************)
\* Path.Head
PathHead(p) == IF Len(p) = 0 THEN "" ELSE p[1]

\* Path.Tail
PathTail(p) == IF Len(p) = 0 THEN <<>> ELSE SubSeq(p, 2, Len(p))

(***************************************************************************)
(* pkg/maputil: ParsePath.  A path expression is the sequence of its dots  *)
(* and of its words (the longest runs of characters without a dot).        *)
(***************************************************************************)
\* strings.Split(path, "."), from a position on: part is what has been read of the
\* current part
RECURSIVE SplitFrom(_, _)
SplitFrom(expr, part) ==
    IF Len(expr) = 0 THEN <<part>>
    ELSE IF expr[1] = "." THEN <<part>> \o SplitFrom(SubSeq(expr, 2, Len(expr)), "")
    ELSE SplitFrom(SubSeq(expr, 2, Len(expr)), expr[1])

Split(expr) == SplitFrom(expr, "")

\* faulty variant: the empty parts are not skipped
allParts(expr) ==
    IF Len(expr) = 0 THEN [path |-> <<>>, err |-> "path cannot be empty"]
    ELSE [path |-> Split(expr), err |-> NoError]

ParsePath(expr) ==
    IF Len(expr) = 0 THEN [path |-> <<>>, err |-> "path cannot be empty"]
    ELSE LET IsValid(part) == part # ""
             validParts == SelectSeq(Split(expr), IsValid)
         IN  IF Len(validParts) = 0
             THEN [path |-> <<>>, err |-> "path does not contain a single path element"]
             ELSE [path |-> validParts, err |-> NoError]

(***************************************************************************)
(* pkg/maputil: RemovePath and PruneObject on the map of an object node.   *)
(* Both return the (mutated) map together with the error.                  *)
(***************************************************************************)
\* faulty variant: a child that has become empty is kept
RECURSIVE keepEmpty(_, _)
keepEmpty(obj, path) ==
    IF Len(path) = 0 THEN [obj |-> obj, err |-> "path cannot be empty"]
    ELSE LET head == PathHead(path)
             tail == PathTail(path)
         IN  IF Len(tail) = 0 THEN [obj |-> MapDelete(obj, head), err |-> NoError]
             ELSE IF head \notin DOMAIN obj THEN [obj |-> obj, err |-> NoError]
             ELSE IF ~IsMap(obj[head]) THEN [obj |-> obj, err |-> NoError]
             ELSE LET modified == keepEmpty(obj[head].m, tail)
                  IN  IF modified.err # NoError
                      THEN [obj |-> obj, err |-> "failed to remove child"]
                      ELSE [obj |-> MapSet(obj, head, Obj(modified.obj)), err |-> NoError]

\* faulty variant: the child is tested for emptiness before the removal, not after
RECURSIVE testBefore(_, _)
testBefore(obj, path) ==
    IF Len(path) = 0 THEN [obj |-> obj, err |-> "path cannot be empty"]
    ELSE LET head == PathHead(path)
             tail == PathTail(path)
         IN  IF Len(tail) = 0 THEN [obj |-> MapDelete(obj, head), err |-> NoError]
             ELSE IF head \notin DOMAIN obj THEN [obj |-> obj, err |-> NoError]
             ELSE IF ~IsMap(obj[head]) THEN [obj |-> obj, err |-> NoError]
             ELSE LET modified == testBefore(obj[head].m, tail)
                  IN  IF modified.err # NoError
                      THEN [obj |-> obj, err |-> "failed to remove child"]
                      ELSE IF DOMAIN obj[head].m = {}
                      THEN [obj |-> MapDelete(obj, head), err |-> NoError]
                      ELSE [obj |-> MapSet(obj, head, Obj(modified.obj)), err |-> NoError]

\* faulty variant: a child is deleted only if the removal has emptied it; a child
\* that was empty before stays
RECURSIVE keepAlreadyEmpty(_, _)
keepAlreadyEmpty(obj, path) ==
    IF Len(path) = 0 THEN [obj |-> obj, err |-> "path cannot be empty"]
    ELSE LET head == PathHead(path)
             tail == PathTail(path)
         IN  IF Len(tail) = 0 THEN [obj |-> MapDelete(obj, head), err |-> NoError]
             ELSE IF head \notin DOMAIN obj THEN [obj |-> obj, err |-> NoError]
             ELSE IF ~IsMap(obj[head]) THEN [obj |-> obj, err |-> NoError]
             ELSE LET modified == keepAlreadyEmpty(obj[head].m, tail)
                  IN  IF modified.err # NoError
                      THEN [obj |-> obj, err |-> "failed to remove child"]
                      ELSE IF DOMAIN modified.obj = {} /\ DOMAIN obj[head].m # {}
                      THEN [obj |-> MapDelete(obj, head), err |-> NoError]
                      ELSE [obj |-> MapSet(obj, head, Obj(modified.obj)), err |-> NoError]

\* faulty variant: a head that holds no object is deleted
RECURSIVE dropValue(_, _)
dropValue(obj, path) ==
    IF Len(path) = 0 THEN [obj |-> obj, err |-> "path cannot be empty"]
    ELSE LET head == PathHead(path)
             tail == PathTail(path)
         IN  IF Len(tail) = 0 THEN [obj |-> MapDelete(obj, head), err |-> NoError]
             ELSE IF head \notin DOMAIN obj THEN [obj |-> obj, err |-> NoError]
             ELSE IF ~IsMap(obj[head]) THEN [obj |-> MapDelete(obj, head), err |-> NoError]
             ELSE LET modified == dropValue(obj[head].m, tail)
                  IN  IF modified.err # NoError
                      THEN [obj |-> obj, err |-> "failed to remove child"]
                      ELSE IF DOMAIN modified.obj = {}
                      THEN [obj |-> MapDelete(obj, head), err |-> NoError]
                      ELSE [obj |-> MapSet(obj, head, Obj(modified.obj)), err |-> NoError]

RECURSIVE RemovePath(_, _)
RemovePath(obj, path) ==
    IF Len(path) = 0 THEN [obj |-> obj, err |-> "path cannot be empty"]
    ELSE LET head == PathHead(path)
             tail == PathTail(path)
         IN  IF Len(tail) = 0 THEN [obj |-> MapDelete(obj, head), err |-> NoError]
             ELSE IF head \notin DOMAIN obj THEN [obj |-> obj, err |-> NoError]
             ELSE IF ~IsMap(obj[head]) THEN [obj |-> obj, err |-> NoError]
             ELSE LET modified == RemovePath(obj[head].m, tail)
                  IN  IF modified.err # NoError
                      THEN [obj |-> obj, err |-> "failed to remove child"]
                      ELSE IF DOMAIN modified.obj = {}
                      THEN [obj |-> MapDelete(obj, head), err |-> NoError]
                      ELSE [obj |-> MapSet(obj, head, Obj(modified.obj)), err |-> NoError]

\* faulty variant: only the first path whose head is `head` gives its tail
RECURSIVE firstTail(_, _)
firstTail(paths, head) ==
    IF Len(paths) = 0 THEN <<>>
    ELSE IF PathHead(paths[1]) = head THEN <<PathTail(paths[1])>>
    ELSE firstTail(SubSeq(paths, 2, Len(paths)), head)

\* getSubPaths: the tails of the paths whose head is `head`, in order
RECURSIVE getSubPaths(_, _)
getSubPaths(paths, head) ==
    IF Len(paths) = 0 THEN <<>>
    ELSE (IF PathHead(paths[1]) = head THEN <<PathTail(paths[1])>> ELSE <<>>)
         \o getSubPaths(SubSeq(paths, 2, Len(paths)), head)

\* faulty variant: a value whose key is the head of a path is kept whole
wholeValue(key, value, paths) ==
    IF \A i \in 1..Len(paths) : PathHead(paths[i]) # key
    THEN [value |-> GoNil, err |-> NoError]
    ELSE [value |-> value, err |-> NoError]

RECURSIVE PruneObject(_, _)
RECURSIVE pruneValue(_, _, _)

\* pruneValue: the filtered value of one key, GoNil when no path has the key as head
pruneValue(key, value, paths) ==
    IF \A i \in 1..Len(paths) : PathHead(paths[i]) # key
    THEN [value |-> GoNil, err |-> NoError]
    ELSE IF ~IsMap(value) THEN [value |-> value, err |-> NoError]
    ELSE LET subPaths == getSubPaths(paths, key)
         IN  IF \E i \in 1..Len(subPaths) : Len(subPaths[i]) = 0
             THEN [value |-> value, err |-> NoError]
             ELSE LET pruned == PruneObject(value.m, subPaths)
                  IN  IF pruned.err # NoError
                      THEN [value |-> GoNil, err |-> pruned.err]
                      ELSE [value |-> Obj(pruned.obj), err |-> NoError]

\* faulty variant: the paths are not looked at before the keys are
unchecked(obj, paths) ==
    IF Len(paths) = 0 THEN [obj |-> obj, err |-> "paths cannot be empty"]
    ELSE LET filtered == [key \in DOMAIN obj |-> pruneValue(key, obj[key], paths)]
             kept == {key \in DOMAIN obj : filtered[key].value # GoNil}
         IN  IF \E key \in DOMAIN obj : filtered[key].err # NoError
             THEN [obj |-> obj,
                   err |-> (CHOOSE e \in {filtered[key].err : key \in DOMAIN obj} : e # NoError)]
             ELSE [obj |-> [key \in kept |-> filtered[key].value], err |-> NoError]

PruneObject(obj, paths) ==
    IF Len(paths) = 0 THEN [obj |-> obj, err |-> "paths cannot be empty"]
    ELSE IF \E i \in 1..Len(paths) : Len(paths[i]) = 0
    THEN [obj |-> obj, err |-> "path is empty"]
    ELSE LET filtered == [key \in DOMAIN obj |-> pruneValue(key, obj[key], paths)]
             kept == {key \in DOMAIN obj : filtered[key].value # GoNil}
         IN  IF \E key \in DOMAIN obj : filtered[key].err # NoError
             THEN [obj |-> obj,
                   err |-> (CHOOSE e \in {filtered[key].err : key \in DOMAIN obj} : e # NoError)]
             ELSE [obj |-> [key \in kept |-> filtered[key].value], err |-> NoError]

\* PruneObject with its loop spelled out: `for key, value := range obj` visits the
\* keys in an order the runtime picks (here: order), a key deleted before the loop
\* reaches it is not visited, and the loop deletes or replaces the key it is at
RECURSIVE PruneRange(_, _, _)
PruneRange(obj, paths, order) ==
    IF Len(order) = 0 THEN [obj |-> obj, err |-> NoError]
    ELSE IF order[1] \notin DOMAIN obj THEN PruneRange(obj, paths, Tail(order))
    ELSE IF pruneValue(order[1], obj[order[1]], paths).err # NoError
    THEN [obj |-> obj, err |-> pruneValue(order[1], obj[order[1]], paths).err]
    ELSE IF pruneValue(order[1], obj[order[1]], paths).value = GoNil
    THEN PruneRange(MapDelete(obj, order[1]), paths, Tail(order))
    ELSE PruneRange(MapSet(obj, order[1], pruneValue(order[1], obj[order[1]], paths).value),
                    paths, Tail(order))

PruneObjectInOrder(obj, paths, order) ==
    IF Len(paths) = 0 THEN [obj |-> obj, err |-> "paths cannot be empty"]
    ELSE IF \E i \in 1..Len(paths) : Len(paths[i]) = 0
    THEN [obj |-> obj, err |-> "path is empty"]
    ELSE PruneRange(obj, paths, order)

(***************************************************************************)
(* Encodings.  JSON text is modelled as the sorted list of its members,    *)
(* one entry per leaf, null or empty object with the path that leads to    *)
(* it; YAML text as its lines <<indentation, key, scalar>>.                *)
(***************************************************************************)
RECURSIVE ContainsNaN(_)
ContainsNaN(node) ==
    IF node = NaN THEN TRUE
    ELSE IF IsMap(node) THEN \E k \in DOMAIN node.m : ContainsNaN(node.m[k])
    ELSE FALSE

RECURSIVE Members(_, _)
RECURSIVE MembersOf(_, _, _)
MembersOf(m, keys, prefix) ==
    IF Len(keys) = 0 THEN <<>>
    ELSE Members(m[keys[1]], Append(prefix, keys[1]))
         \o MembersOf(m, SubSeq(keys, 2, Len(keys)), prefix)

Members(node, prefix) ==
    IF IsMap(node)
    THEN IF DOMAIN node.m = {} THEN << [path |-> prefix, t |-> "obj", v |-> <<"{}">>] >>
         ELSE MembersOf(node.m, SortKeys(DOMAIN node.m), prefix)
    ELSE IF node = GoNil THEN << [path |-> prefix, t |-> "nil", v |-> <<"null">>] >>
    ELSE << [path |-> prefix, t |-> "leaf", v |-> node.v] >>

\* json.Marshal
Marshal(node) ==
    IF ContainsNaN(node) THEN [json |-> <<>>, err |-> "json: unsupported value: NaN"]
    ELSE [json |-> Members(node, <<>>), err |-> NoError]

RECURSIVE Decode(_, _)
Decode(members, depth) ==
    IF Len(members) = 1 /\ Len(members[1].path) = depth
    THEN (IF members[1].t = "obj" THEN Obj(EmptyMap)
          ELSE IF members[1].t = "nil" THEN GoNil
          ELSE Leaf(members[1].v))
    ELSE LET keys == {members[i].path[depth + 1] : i \in 1..Len(members)}
         IN  Obj([k \in keys |->
                    LET Under(e) == e.path[depth + 1] = k
                    IN  Decode(SelectSeq(members, Under), depth + 1)])

\* json.Unmarshal(data, &interface{})
UnmarshalValue(json) == Decode(json, 0)

\* json.Unmarshal(data, &map[string]interface{}): a JSON null leaves a nil map (no
\* keys), any other non-object is an error
UnmarshalMap(json) ==
    LET value == UnmarshalValue(json)
    IN  IF IsMap(value) THEN [obj |-> value.m, err |-> NoError]
        ELSE IF value = GoNil THEN [obj |-> EmptyMap, err |-> NoError]
        ELSE [obj |-> EmptyMap, err |-> "json: cannot unmarshal into Go value of type map"]

\* a string or path without its first element
Rest(str) == SubSeq(str, 2, Len(str))

\* length of the longest common prefix of two paths
RECURSIVE CommonPrefix(_, _)
CommonPrefix(p, q) ==
    IF Len(p) = 0 \/ Len(q) = 0 \/ p[1] # q[1] THEN 0
    ELSE 1 + CommonPrefix(Rest(p), Rest(q))

\* the YAML lines of member i: the keys it opens, then the member itself
YAMLMember(json, i) ==
    LET path == json[i].path
        shared == IF i = 1 THEN 0 ELSE CommonPrefix(json[i - 1].path, path)
    IN  IF Len(path) = 0 THEN << <<0, "", json[i].v>> >>
        ELSE [j \in 1..(Len(path) - shared) |->
                <<shared + j - 1, path[shared + j],
                  IF shared + j = Len(path) THEN json[i].v ELSE <<>>>>]

RECURSIVE YAMLFrom(_, _)
YAMLFrom(json, i) ==
    IF i > Len(json) THEN <<>> ELSE YAMLMember(json, i) \o YAMLFrom(json, i + 1)

\* yaml.JSONToYAML
JSONToYAML(json) == YAMLFrom(json, 1)

(***************************************************************************)
(* State.                                                                  *)
(***************************************************************************)
VARIABLES
    args,       \* the command line stalk was started with (one of CommandLines)
    world,      \* what exists in the cluster (one of Worlds)
    process,    \* main: its position, whether rootCtx is cancelled, the closed channels
    heap,       \* address -> *unstructured.Unstructured content
    resources,  \* ResourceCache.resources: object key -> cacheItem
    lock,       \* ResourceCache.lock: [writer, readers]
    chan,       \* per goroutine: wi.ResultChan(), a FIFO of events
    delivered,  \* per goroutine: events the source has sent so far
    clock,      \* the last instant time.Now() has returned
    pc,         \* per goroutine: the statement it executes next
    event,      \* per goroutine: event.Type of the event in hand
    obj,        \* per goroutine: address of the object in hand
    previous,   \* per goroutine: snapshot address returned by Get
    lastSeen,   \* per goroutine: time returned by Get
    item,       \* per goroutine: the cacheItem Set is storing
    stack,      \* per goroutine: where the running cache call returns to
    note,       \* history: per goroutine, the notification or call in hand
    lastNote,   \* history: per identity, the last notification dispatched
    origin,     \* history: per key, the goroutine that wrote each field
    gotOrigin,  \* history: per goroutine, the origin of what Get returned
    call        \* the calls of a function made on its own: arguments and results

vars == <<args, world, process, heap, resources, lock, chan, delivered, clock, pc, event, obj,
          previous, lastSeen, item, stack, note, lastNote, origin, gotOrigin, call>>

\* the goroutines: one per watched kind (the go func of watchKubernetes)
Goroutines == {"g1", "g2"}

(***************************************************************************)
(* Construction: the options main builds, diff.NewDiffer, the Watcher.     *)
(***************************************************************************)
\* colors.go init(): the three themes, all with word-level highlighting
CreateColorTheme == [theme |-> "create", wordDiff |-> TRUE]
UpdateColorTheme == [theme |-> "update", wordDiff |-> TRUE]
DeleteColorTheme == [theme |-> "delete", wordDiff |-> TRUE]

disableWordDiff(theme) == [theme EXCEPT !.wordDiff = FALSE]

\* the context lines main asks for by default
DefaultContextLines == 3

\* main: the diff.Options it builds from the flags.  The JSONPath and the path
\* expressions are the texts of the command line, nothing is parsed yet.
DifferOptions(contextLines, hideEmpty, jsonPath, includePaths, excludePaths) ==
    [ContextLines |-> contextLines,
     HideEmptyDiffs |-> hideEmpty,
     DisableWordDiff |-> TRUE,
     JSONPath |-> jsonPath,
     compiledJSONPath |-> GoNil,
     IncludePaths |-> includePaths,
     parsedIncludePaths |-> <<>>,
     ExcludePaths |-> excludePaths,
     parsedExcludePaths |-> <<>>,
     CreateColorTheme |-> CreateColorTheme,
     UpdateColorTheme |-> UpdateColorTheme,
     DeleteColorTheme |-> DeleteColorTheme]

\* jsonpath.Parse on a template of one action: "{" and the field names, closed by "}"
Parse(text) ==
    IF Len(text) >= 2 /\ text[1] = "{" /\ text[Len(text)] = "}"
    THEN [path |-> [fields |-> SubSeq(text, 2, Len(text) - 1)], err |-> NoError]
    ELSE [path |-> GoNil, err |-> "unclosed action"]

\* the loops of Validate: the parsed paths up to the first expression in error
RECURSIVE ParsePaths(_)
ParsePaths(exprs) ==
    IF Len(exprs) = 0 THEN [paths |-> <<>>, err |-> NoError]
    ELSE IF ParsePath(Head(exprs)).err # NoError
    THEN [paths |-> <<>>, err |-> ParsePath(Head(exprs)).err]
    ELSE [paths |-> <<ParsePath(Head(exprs)).path>> \o ParsePaths(Tail(exprs)).paths,
          err |-> ParsePaths(Tail(exprs)).err]

\* faulty variant: nothing is checked, what cannot be parsed is left out
unvalidated(o) ==
    [opt |-> [o EXCEPT !.compiledJSONPath = Parse(o.JSONPath).path,
                       !.parsedIncludePaths = ParsePaths(o.IncludePaths).paths,
                       !.parsedExcludePaths = ParsePaths(o.ExcludePaths).paths],
     err |-> NoError]

\* Options.Validate: the options as it leaves them, and the error
Validate(o) ==
    IF o.ContextLines < 0 THEN [opt |-> o, err |-> "context lines cannot be negative"]
    ELSE IF Len(o.JSONPath) # 0 /\ Parse(o.JSONPath).err # NoError
    THEN [opt |-> o, err |-> "invalid JSON path"]
    ELSE LET compiled == IF Len(o.JSONPath) # 0 THEN Parse(o.JSONPath).path
                         ELSE o.compiledJSONPath
             included == ParsePaths(o.IncludePaths)
             excluded == ParsePaths(o.ExcludePaths)
             o1 == [o EXCEPT !.compiledJSONPath = compiled,
                             !.parsedIncludePaths = included.paths]
         IN  IF included.err # NoError
             THEN [opt |-> o1, err |-> "invalid include expression"]
             ELSE IF excluded.err # NoError
             THEN [opt |-> [o1 EXCEPT !.parsedExcludePaths = excluded.paths],
                   err |-> "invalid exclude expression"]
             ELSE [opt |-> [o1 EXCEPT !.parsedExcludePaths = excluded.paths],
                   err |-> NoError]

\* diff.NewDiffer: the Differ is the options it was given, validated
NewDiffer(o) ==
    IF Validate(o).err # NoError THEN [differ |-> GoNil, err |-> "invalid options"]
    ELSE IF o.DisableWordDiff
    THEN [differ |-> [Validate(o).opt EXCEPT !.CreateColorTheme = disableWordDiff(@),
                                             !.UpdateColorTheme = disableWordDiff(@),
                                             !.DeleteColorTheme = disableWordDiff(@)],
          err |-> NoError]
    ELSE [differ |-> Validate(o).opt, err |-> NoError]

\* --hide-managed (the default): one more exclude expression
ManagedFields == <<"metadata", ".", "managedFields">>

\* the command lines of the model: the Differ options and the Watcher they lead to
CommandLines == {"stalk", "stalk --show-empty --hide spec", "stalk --namespace n2 --show metadata"}

\* command lines with --jsonpath, --show and --hide together
DiffCommandLines ==
    CommandLines \cup
    {"stalk --show spec --hide spec.labels",
     "stalk --show spec.labels.x --hide spec.labels.a",
     "stalk --jsonpath {.spec} --show replicas --hide labels",
     "stalk --jsonpath {.metadata.name} --show spec --hide metadata",
     "stalk --jsonpath {.status} --hide spec"}

\* command lines that project the objects of the cluster before the comparison
RenderCommandLines ==
    {"stalk --show-empty --hide spec",
     "stalk --show spec --hide spec.labels",
     "stalk --jsonpath {.spec} --show replicas --hide labels",
     "stalk --show spec.replicas",
     "stalk --hide spec.labels"}

\* command lines that Validate refuses
InvalidCommandLines ==
    {"stalk --context-lines -1", "stalk --show .", "stalk --hide ..",
     "stalk --jsonpath {.spec"}

\* command lines with namespaces and names, patterns among them
FilterCommandLines ==
    {"stalk -n n1", "stalk -n n* a b*", "stalk -n n[*", "stalk -n * ?*",
     "stalk -n n? -n n2 b", "stalk c", "stalk a?"}

\* the Watcher of a command line that leaves the options of the Differ alone
Filters(namespaces, resourceNames) ==
    [options |-> DifferOptions(DefaultContextLines, TRUE, <<>>, <<>>, <<ManagedFields>>),
     watcher |-> [namespaces |-> namespaces, resourceNames |-> resourceNames]]

\* main: the options as pflag.Parse leaves them (only what the model tells apart)
Flags(line) == [disableWordDiff |-> line = "stalk --diff-by-line"]

CommandLine(line) ==
    CASE line = "stalk --diff-by-line" ->
             \* stalk --diff-by-line configmaps,deployments: differOpts does not read
             \* opt.disableWordDiff
             [options |-> DifferOptions(DefaultContextLines, TRUE, <<>>, <<>>,
                                        <<ManagedFields>>),
              watcher |-> [namespaces |-> <<>>, resourceNames |-> <<>>]]
      [] line = "stalk" ->
             \* stalk configmaps,deployments
             [options |-> DifferOptions(DefaultContextLines, TRUE, <<>>, <<>>,
                                        <<ManagedFields>>),
              watcher |-> [namespaces |-> <<>>, resourceNames |-> <<>>]]
      [] line = "stalk --show-empty --hide spec" ->
             \* stalk --show-empty --hide spec configmaps,deployments a
             [options |-> DifferOptions(DefaultContextLines, FALSE, <<>>, <<>>,
                                        <<<<"spec">>, ManagedFields>>),
              watcher |-> [namespaces |-> <<>>, resourceNames |-> <<<<"a">>>>]]
      [] line = "stalk --namespace n2 --show metadata" ->
             \* stalk --namespace n2 --show metadata configmaps,deployments
             [options |-> DifferOptions(DefaultContextLines, TRUE, <<>>,
                                        <<<<"metadata">>>>, <<ManagedFields>>),
              watcher |-> [namespaces |-> <<<<"n", "2">>>>, resourceNames |-> <<>>]]
      [] line = "stalk --show spec --hide spec.labels" ->
             [options |-> DifferOptions(DefaultContextLines, TRUE, <<>>, <<<<"spec">>>>,
                                        <<<<"spec", ".", "labels">>, ManagedFields>>),
              watcher |-> [namespaces |-> <<>>, resourceNames |-> <<>>]]
      [] line = "stalk --show spec.labels.x --hide spec.labels.a" ->
             [options |-> DifferOptions(DefaultContextLines, TRUE, <<>>,
                                        <<<<"spec", ".", "labels", ".", "x">>>>,
                                        <<<<"spec", ".", "labels", ".", "a">>,
                                          ManagedFields>>),
              watcher |-> [namespaces |-> <<>>, resourceNames |-> <<>>]]
      [] line = "stalk --jsonpath {.spec} --show replicas --hide labels" ->
             [options |-> DifferOptions(DefaultContextLines, TRUE, <<"{", "spec", "}">>,
                                        <<<<"replicas">>>>,
                                        <<<<"labels">>, ManagedFields>>),
              watcher |-> [namespaces |-> <<>>, resourceNames |-> <<>>]]
      [] line = "stalk --jsonpath {.metadata.name} --show spec --hide metadata" ->
             [options |-> DifferOptions(DefaultContextLines, TRUE,
                                        <<"{", "metadata", "name", "}">>,
                                        <<<<"spec">>>>,
                                        <<<<"metadata">>, ManagedFields>>),
              watcher |-> [namespaces |-> <<>>, resourceNames |-> <<>>]]
      [] line = "stalk --jsonpath {.status} --hide spec" ->
             [options |-> DifferOptions(DefaultContextLines, TRUE, <<"{", "status", "}">>,
                                        <<>>, <<<<"spec">>, ManagedFields>>),
              watcher |-> [namespaces |-> <<>>, resourceNames |-> <<>>]]
      [] line = "stalk --show spec.replicas" ->
             [options |-> DifferOptions(DefaultContextLines, TRUE, <<>>,
                                        <<<<"spec", ".", "replicas">>>>,
                                        <<ManagedFields>>),
              watcher |-> [namespaces |-> <<>>, resourceNames |-> <<>>]]
      [] line = "stalk --hide spec.labels" ->
             [options |-> DifferOptions(DefaultContextLines, TRUE, <<>>, <<>>,
                                        <<<<"spec", ".", "labels">>, ManagedFields>>),
              watcher |-> [namespaces |-> <<>>, resourceNames |-> <<>>]]
      [] line = "stalk --hide-managed=false --show spec.replicas" ->
             [options |-> DifferOptions(DefaultContextLines, TRUE, <<>>,
                                        <<<<"spec", ".", "replicas">>>>, <<>>),
              watcher |-> [namespaces |-> <<>>, resourceNames |-> <<>>]]
      [] line = "stalk --hide-managed=false --show spec.labels.a --show metadata.name" ->
             [options |-> DifferOptions(DefaultContextLines, TRUE, <<>>,
                                        <<<<"spec", ".", "labels", ".", "a">>,
                                          <<"metadata", ".", "name">>>>, <<>>),
              watcher |-> [namespaces |-> <<>>, resourceNames |-> <<>>]]
      [] line = "stalk --hide spec.labels.a" ->
             [options |-> DifferOptions(DefaultContextLines, TRUE, <<>>, <<>>,
                                        <<<<"spec", ".", "labels", ".", "a">>,
                                          ManagedFields>>),
              watcher |-> [namespaces |-> <<>>, resourceNames |-> <<>>]]
      [] line = "stalk --context-lines -1" ->
             [options |-> DifferOptions(0 - 1, TRUE, <<>>, <<>>, <<ManagedFields>>),
              watcher |-> [namespaces |-> <<>>, resourceNames |-> <<>>]]
      [] line = "stalk --show ." ->
             [options |-> DifferOptions(DefaultContextLines, TRUE, <<>>, <<<<".">>>>,
                                        <<ManagedFields>>),
              watcher |-> [namespaces |-> <<>>, resourceNames |-> <<>>]]
      [] line = "stalk --hide .." ->
             [options |-> DifferOptions(DefaultContextLines, TRUE, <<>>, <<>>,
                                        <<<<".", ".">>, ManagedFields>>),
              watcher |-> [namespaces |-> <<>>, resourceNames |-> <<>>]]
      [] line = "stalk --jsonpath {.spec" ->
             [options |-> DifferOptions(DefaultContextLines, TRUE, <<"{", "spec">>,
                                        <<>>, <<ManagedFields>>),
              watcher |-> [namespaces |-> <<>>, resourceNames |-> <<>>]]
      [] line = "stalk -n n1" -> Filters(<<<<"n", "1">>>>, <<>>)
      [] line = "stalk -n n* a b*" -> Filters(<<<<"n", "*">>>>, <<<<"a">>, <<"b", "*">>>>)
      [] line = "stalk -n n[*" -> Filters(<<<<"n", "[", "*">>>>, <<>>)
      [] line = "stalk -n * ?*" -> Filters(<<<<"*">>>>, <<<<"?", "*">>>>)
      [] line = "stalk -n n? -n n2 b" ->
             Filters(<<<<"n", "?">>, <<"n", "2">>>>, <<<<"b">>>>)
      [] line = "stalk c" -> Filters(<<>>, <<<<"c">>>>)
      [] line = "stalk a?" -> Filters(<<>>, <<<<"a", "?">>>>)

\* main: differOpts
differOpts == CommandLine(args).options

\* Differ.opt: the options the Differ was built with
opt == NewDiffer(differOpts).differ

\* the Watcher main has built
watcher == CommandLine(args).watcher

(***************************************************************************)
(* unstructured.Unstructured accessors.  Strings that the code inspects    *)
(* (names, namespaces, patterns, keys) are sequences of symbols.           *)
(***************************************************************************)
Deref(a) == IF a = Nil THEN GoNil ELSE heap[a]

\* unstructured.NestedString(obj, k1, k2); "" when absent
NestedString(o, k1, k2) ==
    IF /\ IsMap(o)
       /\ k1 \in DOMAIN o.m
       /\ IsMap(o.m[k1])
       /\ k2 \in DOMAIN o.m[k1].m
       /\ o.m[k1].m[k2].t = "leaf"
    THEN o.m[k1].m[k2].v
    ELSE <<>>

TopString(o, k) ==
    IF IsMap(o) /\ k \in DOMAIN o.m /\ o.m[k].t = "leaf" THEN o.m[k].v ELSE <<>>

GetName(o) == NestedString(o, "metadata", "name")
GetNamespace(o) == NestedString(o, "metadata", "namespace")
GetResourceVersion(o) == NestedString(o, "metadata", "resourceVersion")
GetAPIVersion(o) == TopString(o, "apiVersion")
GetKind(o) == TopString(o, "kind")

\* position of the first "/" of a string, 0 if none
RECURSIVE IndexSlash(_, _)
IndexSlash(str, i) ==
    IF i > Len(str) THEN 0 ELSE IF str[i] = "/" THEN i ELSE IndexSlash(str, i + 1)

\* schema.ParseGroupVersion
ParseGroupVersion(gv) ==
    LET i == IndexSlash(gv, 1)
    IN  IF i = 0 THEN [Group |-> <<>>, Version |-> gv]
        ELSE IF IndexSlash(gv, i + 1) = 0
        THEN [Group |-> SubSeq(gv, 1, i - 1), Version |-> SubSeq(gv, i + 1, Len(gv))]
        ELSE [Group |-> <<>>, Version |-> <<>>]

\* obj.GroupVersionKind().String()
GVKString(o) ==
    LET gv == ParseGroupVersion(GetAPIVersion(o))
    IN  gv.Group \o <<"/">> \o gv.Version \o <<", Kind=">> \o GetKind(o)

(***************************************************************************)
(* pkg/cache: the key of an object.                                        *)
(***************************************************************************)
\* faulty variant: a key without the kind
nameKey(o) == GetNamespace(o) \o <<"/">> \o GetName(o)

\* faulty variant: a key that also has the resource version
versionKey(o) == GetKind(o) \o <<"/">> \o GetName(o) \o <<"/">> \o GetResourceVersion(o)

\* ResourceCache.objectKey: Sprintf("%s/%s/%s", gvk, namespace, name)
objectKey(o) == GVKString(o) \o <<"/">> \o GetNamespace(o) \o <<"/">> \o GetName(o)

(***************************************************************************)
(* pkg/watcher: the name and namespace filters.                            *)
(***************************************************************************)
\* strings.Contains(pattern, "*")
ContainsStar(pattern) == \E i \in 1..Len(pattern) : pattern[i] = "*"

\* filepath.Match for the patterns of the model: "*" matches any run of symbols
\* other than "/", "?" one such symbol, "[" opens a class (never closed here:
\* a malformed pattern, which matches nothing)
RECURSIVE Glob(_, _)
Glob(pattern, name) ==
    IF Len(pattern) = 0 THEN Len(name) = 0
    ELSE IF pattern[1] = "*"
    THEN \/ Glob(Rest(pattern), name)
         \/ Len(name) > 0 /\ name[1] # "/" /\ Glob(pattern, Rest(name))
    ELSE IF pattern[1] = "?"
    THEN Len(name) > 0 /\ name[1] # "/" /\ Glob(Rest(pattern), Rest(name))
    ELSE Len(name) > 0 /\ name[1] = pattern[1] /\ Glob(Rest(pattern), Rest(name))

FilepathMatch(pattern, name) ==
    IF \E i \in 1..Len(pattern) : pattern[i] = "[" THEN FALSE ELSE Glob(pattern, name)

\* faulty variant: every pattern is a name, globs are unknown
equalNames(name, pattern) == name = pattern

nameMatches(name, pattern) ==
    IF ContainsStar(pattern) THEN FilepathMatch(pattern, name) ELSE name = pattern

\* faulty variant: a filter that lets every name through
anyName(o) == TRUE

resourceNameMatches(o) ==
    IF Len(watcher.resourceNames) = 0 THEN TRUE
    ELSE \E i \in 1..Len(watcher.resourceNames) :
            nameMatches(GetName(o), watcher.resourceNames[i])

resourceNamespaceMatches(o) ==
    IF Len(watcher.namespaces) = 0 THEN TRUE
    ELSE \E i \in 1..Len(watcher.namespaces) :
            nameMatches(GetNamespace(o), watcher.namespaces[i])

(***************************************************************************)
(* pkg/diff: Differ.preprocess and Differ.PrintDiff.                       *)
(***************************************************************************)
\* the map behind a decoded object; a nil map has no keys
MapOf(node) == IF IsMap(node) THEN node.m ELSE EmptyMap

\* the object a maputil call hands back: the map it was given, mutated in place
Mutated(node, m) == IF IsMap(node) THEN Obj(m) ELSE node

\* jsonpath FindResults for a field expression {.k1.k2...}; missing keys are
\* allowed (AllowMissingKeys) and give no result
RECURSIVE FindResults(_, _)
FindResults(node, fields) ==
    IF Len(fields) = 0 THEN <<node>>
    ELSE IF IsMap(node) /\ fields[1] \in DOMAIN node.m
    THEN FindResults(node.m[fields[1]], Rest(fields))
    ELSE <<>>

\* what preprocess holds between two stages: the JSON text (generic) and the decoded
\* object (genericObj); done: preprocess returns the YAML of the text at once; err: it
\* returns this error
Generic(generic, genericObj) ==
    [generic |-> generic, genericObj |-> genericObj, done |-> FALSE, err |-> NoError]

\* preprocess has returned: the stages that follow are not run
Returned(prev) == prev.err # NoError \/ prev.done

\* faulty variant: no return for a result that is not an object, the include and the
\* exclude stage run on the map that was reset
noReturn(prev, encoded) ==
    IF encoded.err # NoError
    THEN [prev EXCEPT !.err = "failed to encode JSON path result as JSON"]
    ELSE IF UnmarshalMap(encoded.json).err # NoError
    THEN Generic(encoded.json, Obj(EmptyMap))
    ELSE Generic(encoded.json,
                 IF UnmarshalValue(encoded.json) = GoNil THEN GoNil
                 ELSE Obj(UnmarshalMap(encoded.json).obj))

\* lines 102-124: the first JSONPath result, encoded and decoded again
JSONPathResult(prev, encoded) ==
    IF encoded.err # NoError
    THEN [prev EXCEPT !.err = "failed to encode JSON path result as JSON"]
    ELSE IF UnmarshalMap(encoded.json).err # NoError
    THEN [generic |-> encoded.json, genericObj |-> Obj(EmptyMap), done |-> TRUE,
          err |-> NoError]
    ELSE Generic(encoded.json,
                 IF UnmarshalValue(encoded.json) = GoNil THEN GoNil
                 ELSE Obj(UnmarshalMap(encoded.json).obj))

\* lines 97-125: the JSONPath stage
JSONPathStage(prev) ==
    IF Returned(prev) \/ opt.compiledJSONPath = GoNil THEN prev
    ELSE LET results == FindResults(prev.genericObj, opt.compiledJSONPath.fields)
         IN  IF Len(results) = 0 THEN prev
             ELSE JSONPathResult(prev, Marshal(results[1]))

\* lines 129-136 and 146-150: the error of the maputil calls, then json.Marshal of the
\* object they have changed
Reencoded(prev, changed, failed, failedEncoding) ==
    IF changed.err # NoError THEN [prev EXCEPT !.err = failed]
    ELSE LET result == Mutated(prev.genericObj, changed.obj)
             encoded == Marshal(result)
         IN  IF encoded.err # NoError THEN [prev EXCEPT !.err = failedEncoding]
             ELSE Generic(encoded.json, result)

\* lines 127-137: the include stage
IncludeStage(prev) ==
    IF Returned(prev) \/ Len(opt.parsedIncludePaths) = 0 THEN prev
    ELSE Reencoded(prev, PruneObject(MapOf(prev.genericObj), opt.parsedIncludePaths),
                   "failed to apply include inpressions",
                   "failed to encode include inpression result as JSON")

\* faulty variant: every path is removed from the object as it was decoded, not from
\* the object the paths before it have left
fromOriginal(m, paths) ==
    IF Len(paths) = 0 THEN [obj |-> m, err |-> NoError]
    ELSE IF \E i \in 1..Len(paths) : RemovePath(m, paths[i]).err # NoError
    THEN [obj |-> m, err |-> "path cannot be empty"]
    ELSE [obj |-> RemovePath(m, paths[Len(paths)]).obj, err |-> NoError]

\* faulty variant: the loop ends after the first exclude path
firstOnly(m, paths) ==
    IF Len(paths) = 0 THEN [obj |-> m, err |-> NoError]
    ELSE IF RemovePath(m, paths[1]).err # NoError
    THEN [obj |-> m, err |-> RemovePath(m, paths[1]).err]
    ELSE [obj |-> RemovePath(m, paths[1]).obj, err |-> NoError]

\* lines 140-145: the loop over the exclude paths
RECURSIVE RemovePaths(_, _)
RemovePaths(m, paths) ==
    IF Len(paths) = 0 THEN [obj |-> m, err |-> NoError]
    ELSE LET removed == RemovePath(m, paths[1])
         IN  IF removed.err # NoError THEN [obj |-> m, err |-> removed.err]
             ELSE RemovePaths(removed.obj, Rest(paths))

\* lines 139-151: the exclude stage
ExcludeStage(prev) ==
    IF Returned(prev) \/ Len(opt.parsedExcludePaths) = 0 THEN prev
    ELSE Reencoded(prev, RemovePaths(MapOf(prev.genericObj), opt.parsedExcludePaths),
                   "failed to apply exclude expression",
                   "failed to encode exclude expression result as JSON")

\* faulty variant: the exclude paths are removed before the include paths are applied
excludeFirst(generic, decoded) ==
    IF decoded.err # NoError
    THEN [text |-> <<>>, err |-> "failed to re-decode object from JSON"]
    ELSE LET final == IncludeStage(ExcludeStage(JSONPathStage(
                          Generic(generic, Obj(decoded.obj)))))
         IN  IF final.err # NoError THEN [text |-> <<>>, err |-> final.err]
             ELSE [text |-> JSONToYAML(final.generic), err |-> NoError]

\* lines 92-158: the stages on the decoded object, then yaml.JSONToYAML
Projected(generic, decoded) ==
    IF decoded.err # NoError
    THEN [text |-> <<>>, err |-> "failed to re-decode object from JSON"]
    ELSE LET final == ExcludeStage(IncludeStage(JSONPathStage(
                          Generic(generic, Obj(decoded.obj)))))
         IN  IF final.err # NoError THEN [text |-> <<>>, err |-> final.err]
             ELSE [text |-> JSONToYAML(final.generic), err |-> NoError]

\* Differ.preprocess: the projected text of an object (GoNil: the nil object)
preprocess(o) ==
    IF o = GoNil THEN [text |-> <<>>, err |-> NoError]
    ELSE LET encoded == Marshal(o)
         IN  IF encoded.err # NoError
             THEN [text |-> <<>>, err |-> "failed to encode object as JSON"]
             ELSE Projected(encoded.json, UnmarshalMap(encoded.json))

\* faulty variant: genericObj is the map of the object itself
objectItself(o, decoded) == [ref |-> "obj", tree |-> o]

\* lines 87-95: genericObj is a map of its own, decoded from the JSON text of the
\* object
Unmarshalled(o, decoded) == [ref |-> "genericObj", tree |-> Obj(decoded.obj)]

\* The object a caller has passed to preprocess, as the call leaves it.  PruneObject
\* and RemovePath change the map genericObj in place (until a JSONPath result
\* replaces it by a new map); the object is changed with it only if genericObj is
\* the map of the object.
Left(o, genericObj) ==
    IF genericObj.ref # "obj" THEN o
    ELSE IF JSONPathStage(Generic(<<>>, o)) # Generic(<<>>, o) THEN o
    ELSE ExcludeStage(IncludeStage(Generic(<<>>, o))).genericObj

\* the same for any object, nil and objects without JSON encoding included
AfterPreprocess(o) ==
    IF o = GoNil THEN o
    ELSE IF Marshal(o).err # NoError THEN o
    ELSE IF UnmarshalMap(Marshal(o).json).err # NoError THEN o
    ELSE Left(o, Unmarshalled(o, UnmarshalMap(Marshal(o).json)))

\* objectKey of package diff: name, or namespace/name
diffObjectKey(o) ==
    IF GetNamespace(o) # <<>> THEN GetNamespace(o) \o <<"/">> \o GetName(o)
    ELSE GetName(o)

\* faulty variant: a title that takes the nil object for an object
datedTitle(o, seen) ==
    [none |-> FALSE, kind |-> GetKind(o), key |-> diffObjectKey(o),
     version |-> GetResourceVersion(o), timestamp |-> seen]

diffTitle(o, seen) ==
    IF o = GoNil THEN [none |-> TRUE]
    ELSE [none |-> FALSE, kind |-> GetKind(o), key |-> diffObjectKey(o),
          version |-> GetResourceVersion(o), timestamp |-> seen]

\* faulty variant: the theme without the check of newObj
themeOfOld(oldObj, newObj) ==
    IF oldObj = GoNil THEN opt.CreateColorTheme ELSE opt.UpdateColorTheme

\* faulty variant: the theme without the check of oldObj
themeOfNew(oldObj, newObj) ==
    IF newObj = GoNil THEN opt.DeleteColorTheme ELSE opt.UpdateColorTheme

\* lines 64-70: the theme of a diff
ColorTheme(oldObj, newObj) ==
    LET colorTheme == IF oldObj = GoNil THEN opt.CreateColorTheme
                      ELSE opt.UpdateColorTheme
    IN  IF newObj = GoNil THEN opt.DeleteColorTheme ELSE colorTheme

\* faulty variant: an empty diff is hidden whatever HideEmptyDiffs says
hideAlways(old, new, oldObj, newObj, seen, now) ==
    IF old.err # NoError
    THEN [err |-> "failed to process previous object", out |-> <<>>]
    ELSE IF new.err # NoError
    THEN [err |-> "failed to process current object", out |-> <<>>]
    ELSE IF old.text = new.text
    THEN [err |-> NoError, out |-> <<>>]
    ELSE [err |-> NoError,
          out |-> << [titleA |-> diffTitle(oldObj, seen),
                      titleB |-> diffTitle(newObj, now),
                      colorTheme |-> ColorTheme(oldObj, newObj),
                      oldString |-> old.text,
                      newString |-> new.text] >>]

\* lines 56-79: the diff of the two projected texts, unless it is empty and hidden
Diff(old, new, oldObj, newObj, seen, now) ==
    IF old.err # NoError
    THEN [err |-> "failed to process previous object", out |-> <<>>]
    ELSE IF new.err # NoError
    THEN [err |-> "failed to process current object", out |-> <<>>]
    ELSE IF old.text = new.text /\ opt.HideEmptyDiffs
    THEN [err |-> NoError, out |-> <<>>]
    ELSE [err |-> NoError,
          out |-> << [titleA |-> diffTitle(oldObj, seen),
                      titleB |-> diffTitle(newObj, now),
                      colorTheme |-> ColorTheme(oldObj, newObj),
                      oldString |-> old.text,
                      newString |-> new.text] >>]

\* Differ.PrintDiff: the error it returns and the blocks it prints (none or one)
PrintDiff(oldObj, newObj, seen, now) ==
    Diff(preprocess(oldObj), preprocess(newObj), oldObj, newObj, seen, now)

(***************************************************************************)
(* The heap.  heap[a] is the object at address a.  Addresses are not       *)
(* observable by the program, so after every step the live objects are     *)
(* renumbered in the order in which the goroutines and the cache refer to  *)
(* them, and objects nothing refers to are collected.                      *)
(***************************************************************************)
GoroutineOrder == <<"g1", "g2">>

RECURSIVE SetToSeq(_)
SetToSeq(S) ==
    IF S = {} THEN <<>>
    ELSE LET x == CHOOSE y \in S : TRUE IN <<x>> \o SetToSeq(S \ {x})

\* the addresses in use, in a fixed order of the variables that hold them
Refs(o, p, i, r) ==
    [n \in 1..Len(GoroutineOrder) |-> o[GoroutineOrder[n]]]
    \o [n \in 1..Len(GoroutineOrder) |-> p[GoroutineOrder[n]]]
    \o [n \in 1..Len(GoroutineOrder) |-> i[GoroutineOrder[n]].resource]
    \o LET keys == SetToSeq(DOMAIN r) IN [n \in 1..Len(keys) |-> r[keys[n]].resource]

\* the first place of each address of refs
Firsts(refs) ==
    LET Fresh(n) == refs[n] # Nil /\ \A m \in 1..(n - 1) : refs[m] # refs[n]
    IN  SelectSeq([n \in 1..Len(refs) |-> n], Fresh)

Canon(h, o, p, i, r) ==
    LET refs == Refs(o, p, i, r)
        firsts == Firsts(refs)
        to == [a \in 0..Len(h) |->
                 IF \E n \in 1..Len(firsts) : refs[firsts[n]] = a
                 THEN CHOOSE n \in 1..Len(firsts) : refs[firsts[n]] = a
                 ELSE Nil]
    IN  [heap |-> [n \in 1..Len(firsts) |-> h[refs[firsts[n]]]],
         obj |-> [g \in Goroutines |-> to[o[g]]],
         previous |-> [g \in Goroutines |-> to[p[g]]],
         item |-> [g \in Goroutines |-> [i[g] EXCEPT !.resource = to[@]]],
         resources |-> [k \in DOMAIN r |-> [r[k] EXCEPT !.resource = to[@]]]]

\* the next values of the variables that hold objects and addresses
Memory(h, o, p, i, r) ==
    \E c \in {Canon(h, o, p, i, r)} :
        /\ heap' = c.heap
        /\ obj' = c.obj
        /\ previous' = c.previous
        /\ item' = c.item
        /\ resources' = c.resources

\* the address of the next object allocated
New(h) == Len(h) + 1

\* the heap after PrintDiff has run preprocess on the objects at some addresses
Preprocessed(h, addresses) ==
    [a \in 1..Len(h) |-> IF a \in addresses THEN AfterPreprocess(h[a]) ELSE h[a]]

\* runtime.DeepCopyJSONValue: a new tree, copied node by node
RECURSIVE DeepCopy(_)
DeepCopy(node) ==
    IF IsMap(node) THEN Obj([k \in DOMAIN node.m |-> DeepCopy(node.m[k])])
    ELSE IF node = GoNil THEN GoNil
    ELSE Leaf(node.v)

\* faulty variant: the pointer itself instead of a pointer to a copy
samePointer(h, a) == [heap |-> h, ref |-> a]

\* (*Unstructured).DeepCopy(): a new object in the heap, and its address
Copied(h, a) ==
    [heap |-> Append(h, DeepCopy(IF a = Nil THEN GoNil ELSE h[a])), ref |-> New(h)]

NoItem == [resource |-> Nil, lastSeen |-> ZeroTime]
\* history of one notification: its place in the stream, what it carried, whether it
\* was dispatched to Print, the calls made for it so far (completed ones), the
\* arguments and the result of its PrintDiff
NoNote == [seq |-> 0, type |-> "", id |-> <<>>, snapshot |-> GoNil,
           dispatched |-> FALSE, calls |-> <<>>, rendered |-> FALSE,
           old |-> GoNil, new |-> GoNil, seen |-> ZeroTime, err |-> NoError, out |-> <<>>]
NoOrigin == [resource |-> "", lastSeen |-> ""]

(***************************************************************************)
(* pkg/cache: ResourceCache.Get, Set and Delete, statement by statement.   *)
(* The argument of the call is obj[g]; the call returns to stack[g].       *)
(***************************************************************************)
\* faulty variant: a read lock that does not wait for the writer
noWait(l) == TRUE

\* time.Now(): the clock does not run backwards
Now == clock..MaxTime

\* sync.RWMutex: RLock waits for the writer, Lock for the writer and the readers
CanRLock(l) == l.writer = ""
CanLock(l) == l.writer = "" /\ l.readers = {}

Key(g) == objectKey(heap[obj[g]])

Called(g, name) == [note EXCEPT ![g].calls = Append(@, name)]

\* line 32: rc.lock.RLock()
GetRLock(g) ==
    /\ pc[g] = "Get.RLock"
    /\ CanRLock(lock)
    /\ lock' = [lock EXCEPT !.readers = @ \cup {g}]
    /\ pc' = [pc EXCEPT ![g] = "Get.read"]
    /\ UNCHANGED <<args, world, process, call, heap, resources, chan, delivered, clock,
                   event, obj, previous, lastSeen, item, stack, note, lastNote, origin,
                   gotOrigin>>

\* lines 35-40: the lookup and the copy that is returned
GetRead(g) ==
    /\ pc[g] = "Get.read"
    /\ IF Key(g) \notin DOMAIN resources
       THEN /\ Memory(heap, obj, [previous EXCEPT ![g] = Nil], item, resources)
            /\ lastSeen' = [lastSeen EXCEPT ![g] = ZeroTime]
            /\ gotOrigin' = [gotOrigin EXCEPT ![g] = NoOrigin]
       ELSE LET existing == resources[Key(g)]
            IN  /\ \E copy \in {Copied(heap, existing.resource)} :
                       Memory(copy.heap, obj, [previous EXCEPT ![g] = copy.ref], item,
                              resources)
                /\ lastSeen' = [lastSeen EXCEPT ![g] = existing.lastSeen]
                /\ gotOrigin' = [gotOrigin EXCEPT ![g] = IF Key(g) \in DOMAIN origin
                                                         THEN origin[Key(g)]
                                                         ELSE NoOrigin]
    /\ pc' = [pc EXCEPT ![g] = "Get.RUnlock"]
    /\ UNCHANGED <<args, world, process, call, lock, chan, delivered, clock, event, stack,
                   note, lastNote, origin>>

\* line 33: defer rc.lock.RUnlock()
GetRUnlock(g) ==
    /\ pc[g] = "Get.RUnlock"
    /\ lock' = [lock EXCEPT !.readers = @ \ {g}]
    /\ pc' = [pc EXCEPT ![g] = stack[g]]
    /\ note' = Called(g, "Get")
    /\ UNCHANGED <<args, world, process, call, heap, resources, chan, delivered, clock,
                   event, obj, previous, lastSeen, item, stack, lastNote, origin,
                   gotOrigin>>

\* lines 44, 48-50: rc.lock.Lock(), then the cacheItem is built
SetLock(g) ==
    /\ pc[g] = "Set.Lock"
    /\ CanLock(lock)
    /\ lock' = [lock EXCEPT !.writer = g]
    /\ \E now \in Now, copy \in {Copied(heap, obj[g])} :
         /\ Memory(copy.heap, obj, previous,
                   [item EXCEPT ![g] = [resource |-> copy.ref, lastSeen |-> now]],
                   resources)
         /\ clock' = now
    /\ pc' = [pc EXCEPT ![g] = "Set.resource"]
    /\ UNCHANGED <<args, world, process, call, chan, delivered, event, lastSeen, stack,
                   note, lastNote, origin, gotOrigin>>

\* line 47: the map assignment, first word: the resource pointer
SetStoreResource(g) ==
    /\ pc[g] = "Set.resource"
    /\ LET key == Key(g)
           seen == IF key \in DOMAIN resources THEN resources[key].lastSeen ELSE ZeroTime
       IN  /\ Memory(heap, obj, previous, item,
                     MapSet(resources, key,
                            [resource |-> item[g].resource, lastSeen |-> seen]))
           /\ origin' = MapSet(origin, key, [resource |-> g, lastSeen |-> ""])
    /\ pc' = [pc EXCEPT ![g] = "Set.lastSeen"]
    /\ UNCHANGED <<args, world, process, call, lock, chan, delivered, clock, event,
                   lastSeen, stack, note, lastNote, gotOrigin>>

\* line 47: the map assignment, remaining words: the time
SetStoreLastSeen(g) ==
    /\ pc[g] = "Set.lastSeen"
    /\ LET key == Key(g)
       IN  /\ Memory(heap, obj, previous, [item EXCEPT ![g] = NoItem],
                     IF key \in DOMAIN resources
                     THEN [resources EXCEPT ![key].lastSeen = item[g].lastSeen]
                     ELSE MapSet(resources, key, item[g]))
           /\ origin' = MapSet(origin, key,
                               [resource |-> (IF key \in DOMAIN origin
                                              THEN origin[key].resource ELSE g),
                                lastSeen |-> g])
    /\ pc' = [pc EXCEPT ![g] = "Set.Unlock"]
    /\ UNCHANGED <<args, world, process, call, lock, chan, delivered, clock, event,
                   lastSeen, stack, note, lastNote, gotOrigin>>

\* line 45: defer rc.lock.Unlock()
SetUnlock(g) ==
    /\ pc[g] = "Set.Unlock"
    /\ lock' = [lock EXCEPT !.writer = IF @ = g THEN "" ELSE @]
    /\ pc' = [pc EXCEPT ![g] = stack[g]]
    /\ note' = Called(g, "Set")
    /\ UNCHANGED <<args, world, process, call, heap, resources, chan, delivered, clock,
                   event, obj, previous, lastSeen, item, stack, lastNote, origin,
                   gotOrigin>>

\* line 54: rc.lock.Lock()
DeleteLock(g) ==
    /\ pc[g] = "Delete.Lock"
    /\ CanLock(lock)
    /\ lock' = [lock EXCEPT !.writer = g]
    /\ pc' = [pc EXCEPT ![g] = "Delete.delete"]
    /\ UNCHANGED <<args, world, process, call, heap, resources, chan, delivered, clock,
                   event, obj, previous, lastSeen, item, stack, note, lastNote, origin,
                   gotOrigin>>

\* line 57: delete(rc.resources, key)
DeleteKey(g) ==
    /\ pc[g] = "Delete.delete"
    /\ Memory(heap, obj, previous, item, MapDelete(resources, Key(g)))
    /\ origin' = [k \in (DOMAIN origin) \ {Key(g)} |-> origin[k]]
    /\ pc' = [pc EXCEPT ![g] = "Delete.Unlock"]
    /\ UNCHANGED <<args, world, process, call, lock, chan, delivered, clock, event,
                   lastSeen, stack, note, lastNote, gotOrigin>>

\* line 55: defer rc.lock.Unlock()
DeleteUnlock(g) ==
    /\ pc[g] = "Delete.Unlock"
    /\ lock' = [lock EXCEPT !.writer = IF @ = g THEN "" ELSE @]
    /\ pc' = [pc EXCEPT ![g] = stack[g]]
    /\ note' = Called(g, "Delete")
    /\ UNCHANGED <<args, world, process, call, heap, resources, chan, delivered, clock,
                   event, obj, previous, lastSeen, item, stack, lastNote, origin,
                   gotOrigin>>

(***************************************************************************)
(* The watched cluster: what a watch stream can deliver.                   *)
(***************************************************************************)
\* faulty variant: two goroutines for one kind
oneKind(g) == [apiVersion |-> <<"v1">>, kind |-> <<"ConfigMap">>]

\* the kind each goroutine watches (kinds[gvk.String()] of watchKubernetes)
KindOf(g) ==
    IF g = "g1" THEN [apiVersion |-> <<"v1">>, kind |-> <<"ConfigMap">>]
    ELSE [apiVersion |-> <<"apps", "/", "v1">>, kind |-> <<"Deployment">>]

\* the metadata that name an entity: no namespace when it is cluster-scoped
Scope(entity) == IF Len(entity.namespace) = 0 THEN {"name"} ELSE {"name", "namespace"}

Snapshot(g, entity, content) ==
    Obj([k \in {"apiVersion", "kind", "metadata", "spec"} |->
           CASE k = "apiVersion" -> Leaf(KindOf(g).apiVersion)
             [] k = "kind" -> Leaf(KindOf(g).kind)
             [] k = "metadata" -> Obj([j \in Scope(entity) |->
                                         IF j = "name" THEN Leaf(entity.name)
                                         ELSE Leaf(entity.namespace)])
             [] k = "spec" -> content])

\* the object of a bookmark: only the resource version is set
Bookmark(g) ==
    Obj([k \in {"apiVersion", "kind", "metadata"} |->
           CASE k = "apiVersion" -> Leaf(KindOf(g).apiVersion)
             [] k = "kind" -> Leaf(KindOf(g).kind)
             [] k = "metadata" -> Obj([j \in {"resourceVersion"} |-> Leaf(<<"9">>)])])

\* the *metav1.Status of an error event: not an *unstructured.Unstructured
Status == [t |-> "status"]

Identity(g, entity) == <<g, entity.namespace, entity.name>>
NoIdentity(g) == <<g, <<>>, <<>>>>

\* the entities of the model
EntityA == [namespace |-> <<"n", "1">>, name |-> <<"a">>]
EntityB == [namespace |-> <<"n", "2">>, name |-> <<"b">>]
\* a cluster-scoped entity
EntityC == [namespace |-> <<>>, name |-> <<"c">>]

Identities ==
    {Identity(g, e) : g \in Goroutines, e \in {EntityA, EntityB, EntityC}}
        \cup {NoIdentity(g) : g \in Goroutines}

\* the events about some entities with some contents (id is history: the entity the
\* event is about)
Changes(g, types, entities, contents) ==
    {[Type |-> type, Object |-> Snapshot(g, e, c), id |-> Identity(g, e)] :
        type \in types, e \in entities, c \in contents}

\* the events that are about no entity: bookmarks, and errors with a Status
Others(g) ==
    {[Type |-> "BOOKMARK", Object |-> Bookmark(g), id |-> NoIdentity(g)],
     [Type |-> "ERROR", Object |-> Status, id |-> NoIdentity(g)]}

\* what a kind without entities looks like
NoChanges == [types |-> {}, entities |-> {}, contents |-> {}, others |-> FALSE]

\* the worlds of the model: per goroutine, the entities of its kind, the contents
\* they take, the events about them, and whether there are bookmarks and errors
Worlds == {"one kind", "two kinds", "no kind", "one entity", "three names",
           "two fields", "bookmarks"}

World(name) ==
    CASE name = "one kind" ->
             [g \in Goroutines |->
                IF g = "g1"
                THEN [types |-> {"ADDED", "MODIFIED", "DELETED"},
                      entities |-> {EntityA, EntityB},
                      contents |-> {Leaf(<<"1">>), Leaf(<<"2">>), NaN},
                      others |-> TRUE]
                ELSE NoChanges]
      [] name = "two kinds" ->
             [g \in Goroutines |->
                IF g = "g1"
                THEN [types |-> {"ADDED", "MODIFIED", "DELETED"},
                      entities |-> {EntityA}, contents |-> {Leaf(<<"1">>)},
                      others |-> FALSE]
                ELSE [types |-> {"ADDED"},
                      entities |-> {EntityA}, contents |-> {Leaf(<<"2">>)},
                      others |-> FALSE]]
      [] name = "no kind" -> [g \in Goroutines |-> NoChanges]
      [] name = "three names" ->
             [g \in Goroutines |->
                IF g = "g1"
                THEN [types |-> {"ADDED", "MODIFIED", "DELETED"},
                      entities |-> {EntityA, EntityB, EntityC},
                      contents |-> {Leaf(<<"1">>)},
                      others |-> FALSE]
                ELSE NoChanges]
      [] name = "one entity" ->
             [g \in Goroutines |->
                IF g = "g1"
                THEN [types |-> {"ADDED", "MODIFIED", "DELETED"},
                      entities |-> {EntityA}, contents |-> {Leaf(<<"1">>)},
                      others |-> FALSE]
                ELSE NoChanges]
      [] name = "bookmarks" ->
             [g \in Goroutines |->
                IF g = "g1"
                THEN [types |-> {"ADDED", "MODIFIED", "DELETED"},
                      entities |-> {EntityA}, contents |-> {Leaf(<<"1">>)},
                      others |-> TRUE]
                ELSE NoChanges]
      [] name = "two fields" ->
             [g \in Goroutines |->
                IF g = "g1"
                THEN [types |-> {"ADDED", "MODIFIED", "DELETED"},
                      entities |-> {EntityA},
                      contents |-> {Obj([k \in {"labels", "replicas"} |-> Leaf(<<v>>)]) :
                                        v \in {"1", "2"}}
                                   \cup {Obj([k \in {"labels", "replicas"} |->
                                                Leaf(IF k = "labels" THEN <<"2">>
                                                     ELSE <<"1">>)])},
                      others |-> FALSE]
                ELSE NoChanges]

cluster == World(world)

\* the events the watch of a goroutine can carry
Events(g) ==
    Changes(g, cluster[g].types, cluster[g].entities, cluster[g].contents)
        \cup (IF cluster[g].others THEN Others(g) ELSE {})

\* The watch sends one more event.  The channel is a FIFO of the pending events, each
\* known by its number in the stream; what an event carries cannot be observed before
\* it is received and is chosen then.
Deliver(g) ==
    /\ pc[g] # ""
    /\ g \notin process.closed
    /\ delivered[g] < MaxEvents
    /\ Len(chan[g]) < MaxChan
    /\ cluster[g].types # {} \/ cluster[g].others
    /\ chan' = [chan EXCEPT ![g] = Append(@, delivered[g] + 1)]
    /\ delivered' = [delivered EXCEPT ![g] = @ + 1]
    /\ UNCHANGED <<args, world, process, call, heap, resources, lock, clock, pc, event, obj,
                   previous, lastSeen, item, stack, note, lastNote, origin, gotOrigin>>

(***************************************************************************)
(* pkg/watcher: Watcher.Watch, and pkg/diff: Printer.Print.                *)
(***************************************************************************)
\* faulty variant: a type assertion that accepts any runtime.Object
anyObject(object) == TRUE

\* event.Object.(*unstructured.Unstructured)
IsUnstructured(object) == object.t = "obj"

\* faulty variant: a channel that hands out its newest event
newest(queue) == queue[Len(queue)]

\* for event := range wi.ResultChan(): the next event of the channel
Receive(queue) == Head(queue)

\* faulty variant: a switch whose Added case looks the object up like Modified
lookupFirst(type) ==
    CASE type \in {"ADDED", "MODIFIED"} ->
             [pc |-> "Get.RLock", stack |-> "Modified.PrintDiff"]
      [] type = "DELETED" -> [pc |-> "Deleted.PrintDiff", stack |-> ""]
      [] OTHER -> [pc |-> "Print.return", stack |-> ""]

\* faulty variant: a switch with a default case that shows the object as created
otherAsAdded(type) ==
    CASE type = "MODIFIED" -> [pc |-> "Get.RLock", stack |-> "Modified.PrintDiff"]
      [] type = "DELETED" -> [pc |-> "Deleted.PrintDiff", stack |-> ""]
      [] OTHER -> [pc |-> "Added.PrintDiff", stack |-> ""]

\* the switch of Printer.Print: the first statement of the case, and the statement
\* its cache lookup (if it starts with one) returns to
PrintCase(type) ==
    CASE type = "ADDED" -> [pc |-> "Added.PrintDiff", stack |-> ""]
      [] type = "MODIFIED" -> [pc |-> "Get.RLock", stack |-> "Modified.PrintDiff"]
      [] type = "DELETED" -> [pc |-> "Deleted.PrintDiff", stack |-> ""]
      [] OTHER -> [pc |-> "Print.return", stack |-> ""]

\* faulty variants: a Print that stores whatever the event, and one that returns
\* right after PrintDiff
alwaysSet(type) == "Set.Lock"
returnEarly(type) == "Print.return"

\* the cache call that follows PrintDiff in each case
AfterPrintDiff(type) == IF type = "DELETED" THEN "Delete.Lock" ELSE "Set.Lock"

\* watcher.go lines 32-40: one turn of the loop up to the call of Print
Recv(g) ==
    /\ pc[g] = "Watch.range"
    /\ Len(chan[g]) > 0
    /\ \E e \in Events(g) :
       LET fresh == [NoNote EXCEPT !.seq = Receive(chan[g]), !.type = e.Type, !.id = e.id]
       IN  /\ chan' = [chan EXCEPT ![g] = Tail(@)]
           /\ IF ~IsUnstructured(e.Object)
              THEN /\ note' = [note EXCEPT ![g] = fresh]
                   /\ UNCHANGED <<heap, resources, pc, event, obj, previous, item, stack>>
              ELSE IF resourceNameMatches(e.Object) /\ resourceNamespaceMatches(e.Object)
              THEN /\ Memory(Append(heap, e.Object), [obj EXCEPT ![g] = New(heap)],
                             previous, item, resources)
                   /\ event' = [event EXCEPT ![g] = e.Type]
                   /\ pc' = [pc EXCEPT ![g] = PrintCase(e.Type).pc]
                   /\ stack' = [stack EXCEPT ![g] = PrintCase(e.Type).stack]
                   /\ note' = [note EXCEPT ![g] =
                                 [fresh EXCEPT !.snapshot = e.Object, !.dispatched = TRUE]]
              ELSE /\ note' = [note EXCEPT ![g] = [fresh EXCEPT !.snapshot = e.Object]]
                   /\ UNCHANGED <<heap, resources, pc, event, obj, previous, item, stack>>
    /\ UNCHANGED <<args, world, process, call, lock, delivered, clock, lastSeen, lastNote,
                   origin, gotOrigin>>

\* history of a PrintDiff call
Rendered(g, oldObj, newObj, seen, result) ==
    [note EXCEPT ![g].calls = Append(@, "PrintDiff"), ![g].rendered = TRUE,
                 ![g].old = oldObj, ![g].new = newObj, ![g].seen = seen,
                 ![g].err = result.err, ![g].out = result.out]

\* printer lines 33-37, case watch.Added: PrintDiff(nil, obj, time.Time{})
AddedPrintDiff(g) ==
    /\ pc[g] = "Added.PrintDiff"
    /\ \E now \in Now :
         /\ note' = Rendered(g, GoNil, heap[obj[g]], ZeroTime,
                             PrintDiff(GoNil, heap[obj[g]], ZeroTime, now))
         /\ clock' = now
    /\ pc' = [pc EXCEPT ![g] = AfterPrintDiff(event[g])]
    /\ stack' = [stack EXCEPT ![g] = "Print.return"]
    /\ Memory(Preprocessed(heap, {obj[g], previous[g]}), obj, previous, item, resources)
    /\ UNCHANGED <<args, world, process, call, lock, chan, delivered, event, lastSeen,
                   lastNote, origin, gotOrigin>>

\* printer lines 39-44, case watch.Modified: PrintDiff(previous, obj, lastSeen)
ModifiedPrintDiff(g) ==
    /\ pc[g] = "Modified.PrintDiff"
    /\ \E now \in Now :
         /\ note' = Rendered(g, Deref(previous[g]), heap[obj[g]], lastSeen[g],
                             PrintDiff(Deref(previous[g]), heap[obj[g]], lastSeen[g], now))
         /\ clock' = now
    /\ pc' = [pc EXCEPT ![g] = AfterPrintDiff(event[g])]
    /\ stack' = [stack EXCEPT ![g] = "Print.return"]
    /\ Memory(Preprocessed(heap, {obj[g], previous[g]}), obj, previous, item, resources)
    /\ UNCHANGED <<args, world, process, call, lock, chan, delivered, event, lastSeen,
                   lastNote, origin, gotOrigin>>

\* printer lines 46-50, case watch.Deleted: PrintDiff(obj, nil, time.Now())
DeletedPrintDiff(g) ==
    /\ pc[g] = "Deleted.PrintDiff"
    /\ \E seen \in Now, now \in Now :
         /\ seen <= now
         /\ note' = Rendered(g, heap[obj[g]], GoNil, seen,
                             PrintDiff(heap[obj[g]], GoNil, seen, now))
         /\ clock' = now
    /\ pc' = [pc EXCEPT ![g] = AfterPrintDiff(event[g])]
    /\ stack' = [stack EXCEPT ![g] = "Print.return"]
    /\ Memory(Preprocessed(heap, {obj[g], previous[g]}), obj, previous, item, resources)
    /\ UNCHANGED <<args, world, process, call, lock, chan, delivered, event, lastSeen,
                   lastNote, origin, gotOrigin>>

\* what is remembered of a notification once Print has returned
Summary(n) ==
    [type |-> n.type, snapshot |-> n.snapshot, rendered |-> n.rendered,
     old |-> n.old, new |-> n.new, err |-> n.err,
     themes |-> [b \in 1..Len(n.out) |-> n.out[b].colorTheme.theme]]

NoSummary == Summary(NoNote)

\* Print returns to the loop of Watch; its locals go out of scope
PrintReturn(g) ==
    /\ pc[g] = "Print.return"
    /\ pc' = [pc EXCEPT ![g] = "Watch.range"]
    /\ Memory(heap, [obj EXCEPT ![g] = Nil], [previous EXCEPT ![g] = Nil], item,
              resources)
    /\ lastSeen' = [lastSeen EXCEPT ![g] = ZeroTime]
    /\ event' = [event EXCEPT ![g] = ""]
    /\ stack' = [stack EXCEPT ![g] = ""]
    /\ gotOrigin' = [gotOrigin EXCEPT ![g] = NoOrigin]
    /\ lastNote' = [lastNote EXCEPT ![note[g].id] = Summary(note[g])]
    /\ note' = [note EXCEPT ![g] = [NoNote EXCEPT !.seq = note[g].seq]]
    /\ UNCHANGED <<args, world, process, call, lock, chan, delivered, clock, origin>>

\* main waits for the goroutines it has started; nothing has been cancelled or closed
Waiting == [main |-> "wg.Wait", err |-> NoError, cancelled |-> FALSE, closed |-> {}]

\* nothing has been received, printed or stored; the goroutines are at label
Fresh(label) ==
    /\ heap = <<>>
    /\ resources = <<>>
    /\ lock = [writer |-> "", readers |-> {}]
    /\ chan = [g \in Goroutines |-> <<>>]
    /\ delivered = [g \in Goroutines |-> 0]
    /\ clock = 1
    /\ pc = [g \in Goroutines |-> label]
    /\ event = [g \in Goroutines |-> ""]
    /\ obj = [g \in Goroutines |-> Nil]
    /\ previous = [g \in Goroutines |-> Nil]
    /\ lastSeen = [g \in Goroutines |-> ZeroTime]
    /\ item = [g \in Goroutines |-> NoItem]
    /\ stack = [g \in Goroutines |-> ""]
    /\ note = [g \in Goroutines |-> NoNote]
    /\ lastNote = [id \in Identities |-> NoSummary]
    /\ origin = <<>>
    /\ gotOrigin = [g \in Goroutines |-> NoOrigin]

Started(label) ==
    /\ process = Waiting
    /\ Fresh(label)

\* the same, no function has been called on its own
Idle(label) ==
    /\ Started(label)
    /\ call = <<>>

\* watchKubernetes has started the goroutines and the cache is empty; one kind has
\* entities, which go through any changes
Init ==
    /\ args \in CommandLines
    /\ world = "one kind"
    /\ Idle("Watch.range")

Cache(g) ==
    \/ GetRLock(g) \/ GetRead(g) \/ GetRUnlock(g)
    \/ SetLock(g) \/ SetStoreResource(g) \/ SetStoreLastSeen(g) \/ SetUnlock(g)
    \/ DeleteLock(g) \/ DeleteKey(g) \/ DeleteUnlock(g)

Next ==
    \E g \in Goroutines :
        \/ Deliver(g)
        \/ Recv(g)
        \/ AddedPrintDiff(g)
        \/ ModifiedPrintDiff(g)
        \/ DeletedPrintDiff(g)
        \/ PrintReturn(g)
        \/ Cache(g)

Spec == Init /\ [][Next]_vars

\* two kinds, each with the entity n1/a, watched at the same time
InitKinds ==
    /\ args = "stalk"
    /\ world = "two kinds"
    /\ Idle("Watch.range")

SpecKinds == InitKinds /\ [][Next]_vars

\* one kind with three entities, one of them cluster-scoped, watched through the
\* filters of the command line
InitFilter ==
    /\ args \in FilterCommandLines
    /\ world = "three names"
    /\ Idle("Watch.range")

SpecFilter == InitFilter /\ [][Next]_vars

\* the watch of one entity with bookmarks and errors in the stream, without and with
\* a name on the command line
InitOthers ==
    /\ args \in {"stalk", "stalk --show-empty --hide spec"}
    /\ world = "bookmarks"
    /\ Idle("Watch.range")

SpecOthers == InitOthers /\ [][Next]_vars

\* the watch of one entity whose spec has two fields, under projecting command lines
InitRender ==
    /\ args \in RenderCommandLines
    /\ world = "two fields"
    /\ Idle("Watch.range")

SpecRender == InitRender /\ [][Next]_vars

(***************************************************************************)
(* main and watchKubernetes: from the flags to the goroutines, and the end *)
(* of a watch.  A goroutine that has not been started is at "".            *)
(***************************************************************************)
\* what main and the source of the events leave alone
Workers ==
    UNCHANGED <<args, world, call, heap, resources, lock, chan, delivered, clock, event,
                obj, previous, lastSeen, item, stack, note, lastNote, origin, gotOrigin>>

\* log.Fatalf: the error is logged and the process exits
Fatalf(err) == process' = [process EXCEPT !.main = "exit", !.err = err]

\* faulty variant: the error is logged, main goes on
logged(check, next) == process' = [process EXCEPT !.main = next]

\* if err := check; err != nil { log.Fatalf(...) }
OrFatal(check, next) ==
    IF check.err # NoError THEN Fatalf(check.err)
    ELSE process' = [process EXCEPT !.main = next]

\* main: differOpts.Validate()
MainValidate ==
    /\ process.main = "Validate"
    /\ OrFatal(Validate(differOpts), "NewDiffer")
    /\ UNCHANGED pc
    /\ Workers

\* main: diff.NewDiffer(differOpts, log), then NewPrinter and watchKubernetes
MainNewDiffer ==
    /\ process.main = "NewDiffer"
    /\ OrFatal(NewDiffer(differOpts), "watchKubernetes")
    /\ UNCHANGED pc
    /\ Workers

\* watchKubernetes: the watch of the next kind is created and its goroutine started
Go(g) ==
    /\ process.main = "watchKubernetes"
    /\ pc[g] = ""
    /\ g = "g1" \/ pc["g1"] # ""
    /\ pc' = [pc EXCEPT ![g] = "Watch.range"]
    /\ UNCHANGED process
    /\ Workers

\* watchKubernetes: every kind has its goroutine, wg.Wait()
Wait ==
    /\ process.main = "watchKubernetes"
    /\ \A g \in Goroutines : pc[g] # ""
    /\ process' = [process EXCEPT !.main = "wg.Wait"]
    /\ UNCHANGED pc
    /\ Workers

\* the source of the events closes the channel of a watch
Close(g) ==
    /\ pc[g] # ""
    /\ g \notin process.closed
    /\ process' = [process EXCEPT !.closed = @ \cup {g}]
    /\ UNCHANGED pc
    /\ Workers

\* Watcher.Watch: the channel is closed and drained, the range loop ends; wg.Done()
WatchReturn(g) ==
    /\ pc[g] = "Watch.range"
    /\ Len(chan[g]) = 0
    /\ g \in process.closed
    /\ pc' = [pc EXCEPT ![g] = "Watch.done"]
    /\ UNCHANGED process
    /\ Workers

\* wg.Wait() returns when every goroutine is done, and main with it
Exit ==
    /\ process.main = "wg.Wait"
    /\ \A g \in Goroutines : pc[g] = "Watch.done"
    /\ process' = [process EXCEPT !.main = "exit"]
    /\ UNCHANGED pc
    /\ Workers

\* main has parsed the flags of a command line, valid or not
InitMain ==
    /\ args \in {"stalk", "stalk --diff-by-line", "stalk --namespace n2 --show metadata"}
                 \cup InvalidCommandLines
    /\ world = "one entity"
    /\ process = [Waiting EXCEPT !.main = "Validate"]
    /\ Fresh("")
    /\ call = <<>>

NextMain ==
    \/ MainValidate
    \/ MainNewDiffer
    \/ Wait
    \/ Exit
    \/ \E g \in Goroutines : Go(g) \/ Close(g) \/ WatchReturn(g)
    \/ Next

SpecMain == InitMain /\ [][NextMain]_vars

(***************************************************************************)
(* Watcher.Watch under a context that its owner cancels.  The source of    *)
(* the events is free to close the channel at any time, after the          *)
(* cancellation or not at all; the goroutines and main are scheduled       *)
(* fairly, the source and the owner of the context owe nothing.            *)
(***************************************************************************)
\* the owner of ctx cancels it
Cancel ==
    /\ ~process.cancelled
    /\ process' = [process EXCEPT !.cancelled = TRUE]
    /\ UNCHANGED pc
    /\ Workers

\* the steps of the goroutine of a kind
Goroutine(g) ==
    \/ Recv(g)
    \/ AddedPrintDiff(g)
    \/ ModifiedPrintDiff(g)
    \/ DeletedPrintDiff(g)
    \/ PrintReturn(g)
    \/ Cache(g)
    \/ WatchReturn(g)

InitCancel ==
    /\ args = "stalk"
    /\ world = "one entity"
    /\ Idle("Watch.range")

NextCancel ==
    \/ Cancel
    \/ Exit
    \/ \E g \in Goroutines : Deliver(g) \/ Close(g) \/ Goroutine(g)

\* the goroutine leaves the PrintDiff of its case: the step of AddedPrintDiff,
\* ModifiedPrintDiff or DeletedPrintDiff, which is always possible there
Printing(g) ==
    /\ pc[g] \in {"Added.PrintDiff", "Modified.PrintDiff", "Deleted.PrintDiff"}
    /\ pc' = [pc EXCEPT ![g] = AfterPrintDiff(event[g])]

\* a goroutine that can run does run, and so does main
Scheduled(g) ==
    /\ WF_vars(Recv(g) \/ PrintReturn(g) \/ Cache(g) \/ WatchReturn(g))
    /\ WF_pc(Printing(g))

SpecCancel ==
    /\ InitCancel
    /\ [][NextCancel]_vars
    /\ \A g \in Goroutines : Scheduled(g)
    /\ WF_vars(Exit)

(***************************************************************************)
(* The cache on its own: goroutines that call Get, Set and Delete with     *)
(* objects of their choice, also on the same key at the same time.         *)
(***************************************************************************)
ClientObjects ==
    {Snapshot("g1", EntityA, Leaf(<<"1">>)), Snapshot("g1", EntityA, Leaf(<<"2">>)),
     Snapshot("g1", EntityB, Leaf(<<"1">>))}

\* a goroutine calls Get, Set or Delete
ClientCall(g) ==
    /\ pc[g] = "Client.idle"
    /\ \E first \in {"Get.RLock", "Set.Lock", "Delete.Lock"}, o \in ClientObjects :
         /\ Memory(Append(heap, o), [obj EXCEPT ![g] = New(heap)], previous, item,
                   resources)
         /\ pc' = [pc EXCEPT ![g] = first]
    /\ stack' = [stack EXCEPT ![g] = "Client.return"]
    /\ UNCHANGED <<args, world, process, call, lock, chan, delivered, clock, event,
                   lastSeen, note, lastNote, origin, gotOrigin>>

\* the call has returned; the goroutine drops what it holds
ClientReturn(g) ==
    /\ pc[g] = "Client.return"
    /\ pc' = [pc EXCEPT ![g] = "Client.idle"]
    /\ Memory(heap, [obj EXCEPT ![g] = Nil], [previous EXCEPT ![g] = Nil], item,
              resources)
    /\ lastSeen' = [lastSeen EXCEPT ![g] = ZeroTime]
    /\ gotOrigin' = [gotOrigin EXCEPT ![g] = NoOrigin]
    /\ stack' = [stack EXCEPT ![g] = ""]
    /\ note' = [note EXCEPT ![g] = NoNote]
    /\ UNCHANGED <<args, world, process, call, lock, chan, delivered, clock, event,
                   lastNote, origin>>

InitCache ==
    /\ args = "stalk"
    /\ world = "no kind"
    /\ Idle("Client.idle")

NextCache ==
    \E g \in Goroutines :
        \/ ClientCall(g)
        \/ ClientReturn(g)
        \/ Cache(g)

SpecCache == InitCache /\ [][NextCache]_vars

(***************************************************************************)
(* The cache and callers that write to the objects they hold: the object   *)
(* they have passed to Set, and the object Get has returned to them.       *)
(***************************************************************************)
\* what a caller writes: the spec of the object becomes 3
Mutation(node) == Obj(MapSet(node.m, "spec", Leaf(<<"3">>)))

\* the caller writes to the object at one of the pointers it holds
Mutate(g) ==
    /\ pc[g] = "Client.return"
    /\ \E a \in {obj[g], previous[g]} \ {Nil} :
         /\ heap[a] # Mutation(heap[a])
         /\ Memory([heap EXCEPT ![a] = Mutation(@)], obj, previous, item, resources)
    /\ UNCHANGED <<args, world, process, call, lock, chan, delivered, clock, pc, event,
                   lastSeen, stack, note, lastNote, origin, gotOrigin>>

NextCopy ==
    \E g \in Goroutines :
        \/ ClientCall(g)
        \/ ClientReturn(g)
        \/ Cache(g)
        \/ Mutate(g)

SpecCopy == InitCache /\ [][NextCopy]_vars

(***************************************************************************)
(* Functions on their own: a few calls with arguments from a bounded set,  *)
(* each recorded in call with its result.                                  *)
(***************************************************************************)
\* no goroutine runs, the calls are all there is
InitCalls ==
    /\ args \in CommandLines
    /\ world = "no kind"
    /\ Idle("")

Returns(arguments, result) ==
    /\ Len(call) < MaxCalls
    /\ call' = Append(call, [in |-> arguments, out |-> result])
    /\ UNCHANGED <<args, world, process, heap, resources, lock, chan, delivered, clock, pc,
                   event, obj, previous, lastSeen, item, stack, note, lastNote, origin,
                   gotOrigin>>

\* metadata of the objects given to objectKey: with and without namespace, with
\* fields that are no part of the identity, and (documents read from stdin are not
\* validated) with a slash in the name or in the namespace
KeyMetadata ==
    {[k \in {"name"} |-> Leaf(name)] : name \in {<<"a">>, <<"b">>}}
        \cup {[k \in {"name", "namespace"} |->
                  IF k = "name" THEN Leaf(<<"a">>) ELSE Leaf(namespace)] :
               namespace \in {<<"n", "1">>, <<"n", "2">>}}
        \cup {[k \in {"name", "namespace", "resourceVersion"} |->
                  CASE k = "name" -> Leaf(<<"a">>)
                    [] k = "namespace" -> Leaf(<<"n", "1">>)
                    [] k = "resourceVersion" -> Leaf(version)] :
               version \in {<<"8">>, <<"9">>}}
        \cup {[k \in {"name", "namespace"} |->
                  IF k = "name" THEN Leaf(id[2]) ELSE Leaf(id[1])] :
               id \in {<<<<"n">>, <<"1", "/", "a">>>>, <<<<"n", "/", "1">>, <<"a">>>>}}

\* objects of the two kinds, and of a kind whose apiVersion is malformed
KeyObjects ==
    {Obj([k \in {"apiVersion", "kind", "metadata", "spec"} |->
            CASE k = "apiVersion" -> Leaf(kind.apiVersion)
              [] k = "kind" -> Leaf(kind.kind)
              [] k = "metadata" -> Obj(metadata)
              [] k = "spec" -> content]) :
        kind \in {KindOf("g1"), KindOf("g2"),
                  [apiVersion |-> <<"a", "/", "b", "/", "c">>, kind |-> <<"ConfigMap">>]},
        metadata \in KeyMetadata,
        content \in {Leaf(<<"1">>), Obj(EmptyMap)}}

\* rc.objectKey(obj)
ObjectKeyCall == \E o \in KeyObjects : Returns(o, objectKey(o))

SpecKey == InitCalls /\ [][ObjectKeyCall]_vars

\* what the spec of an object can be: a scalar, null, an empty object, objects with
\* and without labels, a value that has no JSON encoding
DiffContents ==
    {Leaf(<<"1">>), GoNil, Obj(EmptyMap), NaN,
     Obj([k \in {"replicas"} |-> Leaf(<<"2">>)]),
     Obj([k \in {"labels"} |-> Obj([j \in {"a"} |-> Leaf(<<"1">>)])]),
     Obj([k \in {"labels", "replicas"} |->
            IF k = "replicas" THEN Leaf(<<"2">>)
            ELSE Obj([j \in {"a", "b"} |-> Leaf(<<"1">>)])])}

\* the object with metadata.managedFields set
Managed(o) ==
    Obj([o.m EXCEPT !["metadata"] = Obj(MapSet(@.m, "managedFields", Leaf(<<"f">>)))])

\* the objects given to preprocess: nil, and snapshots of one entity
DiffObjects ==
    {GoNil} \cup {Snapshot("g1", EntityA, c) : c \in DiffContents}
            \cup {Managed(Snapshot("g1", EntityA, c)) : c \in DiffContents}

InitDiff ==
    /\ args \in DiffCommandLines
    /\ world = "no kind"
    /\ Idle("")

\* d.preprocess(obj)
PreprocessCall == \E o \in DiffObjects : Returns(o, preprocess(o))

SpecPreprocess == InitDiff /\ [][PreprocessCall]_vars

\* the objects given to PrintDiff: nil, and snapshots of one entity
PrintObjects ==
    {GoNil} \cup
    {Snapshot("g1", EntityA, c) :
        c \in {NaN,
               Obj([k \in {"replicas"} |-> Leaf(<<"2">>)]),
               Obj([k \in {"labels", "replicas"} |->
                      IF k = "replicas" THEN Leaf(<<"2">>)
                      ELSE Obj([j \in {"a", "b"} |-> Leaf(<<"1">>)])])}}

\* d.PrintDiff(oldObj, newObj, lastSeen) as Printer.Print calls it: one of the two
\* objects is not nil, lastSeen is the zero time without a previous object
PrintDiffCall ==
    \E oldObj \in PrintObjects, newObj \in PrintObjects :
        /\ oldObj # GoNil \/ newObj # GoNil
        /\ \E seen \in {IF oldObj = GoNil THEN ZeroTime ELSE clock} :
              Returns([oldObj |-> oldObj, newObj |-> newObj, lastSeen |-> seen],
                      PrintDiff(oldObj, newObj, seen, clock))

\* with and without --show-empty, with paths, with a query expression
PrintCommandLines ==
    {"stalk",
     "stalk --show-empty --hide spec",
     "stalk --show spec --hide spec.labels",
     "stalk --jsonpath {.spec} --show replicas --hide labels"}

InitPrintDiff ==
    /\ args \in PrintCommandLines
    /\ world = "no kind"
    /\ Idle("")

SpecPrintDiff == InitPrintDiff /\ [][PrintDiffCall]_vars

\* command lines with include paths only, and with exclude paths only
ProjectCommandLines ==
    {"stalk",
     "stalk --hide-managed=false --show spec.replicas",
     "stalk --hide-managed=false --show spec.labels.a --show metadata.name",
     "stalk --hide spec.labels",
     "stalk --hide spec.labels.a",
     "stalk --show spec --hide spec.labels"}

\* what spec.labels can be: a scalar, an object with none, one or two of its keys
ProjectLabels ==
    {Leaf(<<"1">>), Obj(EmptyMap), Obj([k \in {"a", "b"} |-> Leaf(<<"1">>)])}
        \cup {Obj([k \in {"a"} |-> Leaf(<<v>>)]) : v \in {"1", "2"}}

\* what spec can be: a scalar, or an object with some of labels and replicas
ProjectContents ==
    {Leaf(<<"1">>), Leaf(<<"2">>), Obj(EmptyMap)}
        \cup {Obj([k \in {"replicas"} |-> Leaf(<<v>>)]) : v \in {"1", "2"}}
        \cup {Obj([k \in {"labels"} |-> l]) : l \in ProjectLabels}
        \cup {Obj([k \in {"labels", "replicas"} |->
                      IF k = "labels" THEN l ELSE Leaf(<<"1">>)]) : l \in ProjectLabels}

\* two snapshots of one entity, one of them with managed fields, and the entity
\* without spec
ProjectObjects ==
    {Snapshot("g1", EntityA, c) : c \in ProjectContents}
        \cup {Managed(Snapshot("g1", EntityA, Leaf(<<"1">>))),
              Obj(MapDelete(Snapshot("g1", EntityA, Leaf(<<"1">>)).m, "spec"))}

\* Printer.Print has a Modified notification and the object of the cache
InitProject ==
    /\ args \in ProjectCommandLines
    /\ world = "no kind"
    /\ Started("")
    /\ \E oldObj \in ProjectObjects, newObj \in ProjectObjects :
          call = <<[in |-> [oldObj |-> oldObj, newObj |-> newObj],
                    out |-> [err |-> "running"]]>>

\* d.PrintDiff(oldObj, newObj, lastSeen): the two projections, the error and the
\* blocks printed
ProjectCall ==
    /\ call[1].out = [err |-> "running"]
    /\ \E now \in Now :
          call' = <<[call[1] EXCEPT !.out =
                       [old |-> preprocess(call[1].in.oldObj),
                        new |-> preprocess(call[1].in.newObj),
                        err |-> PrintDiff(call[1].in.oldObj, call[1].in.newObj,
                                          clock, now).err,
                        out |-> PrintDiff(call[1].in.oldObj, call[1].in.newObj,
                                          clock, now).out]]>>
    /\ UNCHANGED <<args, world, process, heap, resources, lock, chan, delivered, clock, pc,
                   event, obj, previous, lastSeen, item, stack, note, lastNote, origin,
                   gotOrigin>>

SpecProject == InitProject /\ [][ProjectCall]_vars

\* the keys of the trees and paths given to RemovePath
PathKeys == {"foo", "bar"}

\* all maps from some of the keys to the given values
MapsOver(values) == UNION {[K -> values] : K \in SUBSET PathKeys}

\* the values that are no objects: a number, an array, null
Scalars == {Leaf(<<"12">>), Leaf(<<"[1,2,3]">>), GoNil}

\* the trees given to RemovePath: every map of depth two or less, and the maps of
\* depth three under foo
Shallow == MapsOver(Scalars \cup {Obj(m) : m \in MapsOver(Scalars)})

RemoveTrees == Shallow \cup {[k \in {"foo"} |-> Obj(m)] : m \in Shallow}

\* the paths given to RemovePath, the empty path included
TestPaths == UNION {[1..n -> PathKeys] : n \in 0..MaxPath}

\* the result of a call that has not returned yet
Running == [obj |-> EmptyMap, err |-> "running"]

\* a test has decoded its input and parsed its path
InitRemovePath ==
    /\ args = "stalk"
    /\ world = "no kind"
    /\ Started("")
    /\ \E tree \in RemoveTrees, path \in TestPaths :
          call = <<[in |-> [obj |-> tree, path |-> path], out |-> Running]>>

\* RemovePath(input, p)
RemovePathCall ==
    /\ Len(call) = 1
    /\ "path" \in DOMAIN call[1].in
    /\ call[1].out = Running
    /\ call' = <<[call[1] EXCEPT !.out = RemovePath(call[1].in.obj, call[1].in.path)]>>
    /\ UNCHANGED <<args, world, process, heap, resources, lock, chan, delivered, clock, pc,
                   event, obj, previous, lastSeen, item, stack, note, lastNote, origin,
                   gotOrigin>>

\* RemovePath(output, p): the same path removed from the tree the first call returned
RemovePathAgain ==
    /\ Len(call) = 1
    /\ "path" \in DOMAIN call[1].in
    /\ call[1].out # Running
    /\ call' = Append(call, [in |-> [obj |-> call[1].out.obj, path |-> call[1].in.path],
                             out |-> RemovePath(call[1].out.obj, call[1].in.path)])
    /\ UNCHANGED <<args, world, process, heap, resources, lock, chan, delivered, clock, pc,
                   event, obj, previous, lastSeen, item, stack, note, lastNote, origin,
                   gotOrigin>>

NextRemovePath == RemovePathCall \/ RemovePathAgain

SpecRemovePath == InitRemovePath /\ [][NextRemovePath]_vars

\* the trees given to the loop over the exclude paths: maps of depth three or less
\* of a number and of objects, empty ones included
ExcludeTrees ==
    MapsOver({Leaf(<<"12">>)}
                \cup {Obj(m) : m \in MapsOver({Leaf(<<"12">>), Obj(EmptyMap)})})

\* two exclude paths, as Validate has parsed them
ExcludePaths == {<<p, q>> : p \in TestPaths \ {<<>>}, q \in TestPaths \ {<<>>}}

\* preprocess has decoded an object and is about to remove the exclude paths
InitExclude ==
    /\ args = "stalk"
    /\ world = "no kind"
    /\ Started("")
    /\ \E tree \in ExcludeTrees, paths \in ExcludePaths :
          call = <<[in |-> [obj |-> tree, paths |-> paths], out |-> Running]>>

\* the loop over the exclude paths
RemovePathsCall ==
    /\ Len(call) = 1
    /\ call[1].out = Running
    /\ call' = <<[call[1] EXCEPT !.out = RemovePaths(call[1].in.obj, call[1].in.paths)]>>
    /\ UNCHANGED <<args, world, process, heap, resources, lock, chan, delivered, clock, pc,
                   event, obj, previous, lastSeen, item, stack, note, lastNote, origin,
                   gotOrigin>>

\* the same loop on the same object when the paths were given the other way round
RemovePathsSwapped ==
    /\ Len(call) = 1
    /\ call[1].out # Running
    /\ \E swapped \in {<<call[1].in.paths[2], call[1].in.paths[1]>>} :
          call' = Append(call, [in |-> [obj |-> call[1].in.obj, paths |-> swapped],
                                out |-> RemovePaths(call[1].in.obj, swapped)])
    /\ UNCHANGED <<args, world, process, heap, resources, lock, chan, delivered, clock, pc,
                   event, obj, previous, lastSeen, item, stack, note, lastNote, origin,
                   gotOrigin>>

NextExclude == RemovePathsCall \/ RemovePathsSwapped

SpecExclude == InitExclude /\ [][NextExclude]_vars

\* the paths given to PruneObject: as deep as the trees, the empty path included
PrunePaths == UNION {[1..n -> PathKeys] : n \in 0..2}

\* the path lists given to PruneObject, the empty list included
PathLists == UNION {[1..n -> PrunePaths] : n \in 0..MaxPaths}

\* a test has decoded its input and parsed its paths
InitPruneObject ==
    /\ args = "stalk"
    /\ world = "no kind"
    /\ Started("")
    /\ \E tree \in Shallow, paths \in PathLists :
          call = <<[in |-> [obj |-> tree, paths |-> paths], out |-> Running]>>

\* PruneObject(input, paths)
PruneObjectCall ==
    /\ Len(call) = 1
    /\ "paths" \in DOMAIN call[1].in
    /\ call[1].out = Running
    /\ call' = <<[call[1] EXCEPT !.out = PruneObject(call[1].in.obj, call[1].in.paths)]>>
    /\ UNCHANGED <<args, world, process, heap, resources, lock, chan, delivered, clock, pc,
                   event, obj, previous, lastSeen, item, stack, note, lastNote, origin,
                   gotOrigin>>

SpecPruneObject == InitPruneObject /\ [][PruneObjectCall]_vars

\* the trees whose keys PruneObject ranges over: maps of depth two or less of a
\* number, null and objects, the empty one included
RangeTrees ==
    MapsOver({Leaf(<<"12">>), GoNil} \cup {Obj(m) : m \in MapsOver({Leaf(<<"12">>)})})

\* the orders in which a range loop can visit a set of keys
Orders(keys) ==
    {order \in [1..Cardinality(keys) -> keys] :
        \A i, j \in 1..Cardinality(keys) : order[i] = order[j] => i = j}

\* lists of one or more paths with one or more segments
ValidLists == {paths \in PathLists : /\ Len(paths) > 0
                                     /\ \A i \in 1..Len(paths) : Len(paths[i]) > 0}

\* the lists with the same paths as the given one, in any order, any number of times
SameSet(paths) ==
    {other \in ValidLists :
        {other[i] : i \in 1..Len(other)} = {paths[i] : i \in 1..Len(paths)}}

\* a caller has an object and a list of paths
InitRange ==
    /\ args = "stalk"
    /\ world = "no kind"
    /\ Started("")
    /\ \E tree \in RangeTrees, paths \in ValidLists :
          \E order \in Orders(DOMAIN tree) :
             call = <<[in |-> [obj |-> tree, paths |-> paths, order |-> order],
                       out |-> Running]>>

\* PruneObject(obj, paths), the range loop visiting the keys in the order of the call
PruneObjectRange ==
    /\ Len(call) = 1
    /\ call[1].out = Running
    /\ call' = <<[call[1] EXCEPT !.out = PruneObjectInOrder(call[1].in.obj,
                                                            call[1].in.paths,
                                                            call[1].in.order)]>>
    /\ UNCHANGED <<args, world, process, heap, resources, lock, chan, delivered, clock, pc,
                   event, obj, previous, lastSeen, item, stack, note, lastNote, origin,
                   gotOrigin>>

\* PruneObject on the same object with the same paths listed in another way, the
\* range loop visiting the keys in another order
PruneObjectOtherwise ==
    /\ Len(call) = 1
    /\ call[1].out # Running
    /\ \E paths \in SameSet(call[1].in.paths), order \in Orders(DOMAIN call[1].in.obj) :
          call' = Append(call, [in |-> [obj |-> call[1].in.obj, paths |-> paths,
                                        order |-> order],
                                out |-> PruneObjectInOrder(call[1].in.obj, paths, order)])
    /\ UNCHANGED <<args, world, process, heap, resources, lock, chan, delivered, clock, pc,
                   event, obj, previous, lastSeen, item, stack, note, lastNote, origin,
                   gotOrigin>>

\* PruneObject on the object the first call has returned, with the paths of that call
PruneObjectAgain ==
    /\ Len(call) = 1
    /\ call[1].out # Running
    /\ \E order \in Orders(DOMAIN call[1].out.obj) :
          call' = Append(call, [in |-> [obj |-> call[1].out.obj,
                                        paths |-> call[1].in.paths, order |-> order],
                                out |-> PruneObjectInOrder(call[1].out.obj,
                                                           call[1].in.paths, order)])
    /\ UNCHANGED <<args, world, process, heap, resources, lock, chan, delivered, clock, pc,
                   event, obj, previous, lastSeen, item, stack, note, lastNote, origin,
                   gotOrigin>>

NextRange == PruneObjectRange \/ PruneObjectOtherwise \/ PruneObjectAgain

SpecRange == InitRange /\ [][NextRange]_vars

\* the path expressions given to ParsePath: dots and words, no word next to a word
\* (two words in a row are one word)
Expressions ==
    {expr \in UNION {[1..n -> {".", "foo", "bar"}] : n \in 0..MaxExpr} :
        \A i \in 1..(Len(expr) - 1) : expr[i] = "." \/ expr[i + 1] = "."}

InitParsePath ==
    /\ args = "stalk"
    /\ world = "no kind"
    /\ Started("")
    /\ \E expr \in Expressions : call = <<[in |-> expr, out |-> Running]>>

\* maputil.ParsePath(path)
ParsePathCall ==
    /\ Len(call) = 1
    /\ call[1].out = Running
    /\ call' = <<[call[1] EXCEPT !.out = ParsePath(call[1].in)]>>
    /\ UNCHANGED <<args, world, process, heap, resources, lock, chan, delivered, clock, pc,
                   event, obj, previous, lastSeen, item, stack, note, lastNote, origin,
                   gotOrigin>>

\* p.Head() and p.Tail() of the path ParsePath returned (nil with an error)
HeadAndTail ==
    /\ Len(call) = 1
    /\ call[1].out # Running
    /\ call' = Append(call, [in |-> call[1].out.path,
                             out |-> [head |-> PathHead(call[1].out.path),
                                      tail |-> PathTail(call[1].out.path)]])
    /\ UNCHANGED <<args, world, process, heap, resources, lock, chan, delivered, clock, pc,
                   event, obj, previous, lastSeen, item, stack, note, lastNote, origin,
                   gotOrigin>>

NextParsePath == ParsePathCall \/ HeadAndTail

SpecParsePath == InitParsePath /\ [][NextParsePath]_vars

\* package maputil: either test
InitMaputil == InitRemovePath \/ InitPruneObject

NextMaputil == NextRemovePath \/ PruneObjectCall

SpecMaputil == InitMaputil /\ [][NextMaputil]_vars

(***************************************************************************)
(* Properties.  Spec: one watched kind with two entities; SpecKinds: two   *)
(* kinds watched at the same time; SpecCache: the cache under concurrent   *)
(* callers.                                                                *)
(***************************************************************************)
\* the cache key of an identity
KeyOf(id) == objectKey(Snapshot(id[1], [namespace |-> id[2], name |-> id[3]], GoNil))

\* the snapshot the cache holds for an identity, GoNil if it holds none
Stored(id) ==
    IF KeyOf(id) \in DOMAIN resources THEN heap[resources[KeyOf(id)].resource] ELSE GoNil

HasEntry(id) == KeyOf(id) \in DOMAIN resources

IdA == Identity("g1", EntityA)
IdB == Identity("g1", EntityB)

\* the calls Print makes for an event, in order
Program(type) ==
    CASE type = "ADDED" -> <<"PrintDiff", "Set">>
      [] type = "MODIFIED" -> <<"Get", "PrintDiff", "Set">>
      [] type = "DELETED" -> <<"PrintDiff", "Delete">>
      [] OTHER -> <<>>

IsPrefix(s, t) == Len(s) <= Len(t) /\ s = SubSeq(t, 1, Len(s))

\* some block of a PrintDiff output
Blocks(out) == {out[b] : b \in 1..Len(out)}

\* C1: whenever the worker of a kind is between two notifications, the cache holds
\* an entry for an identity of that kind if and only if the last notification
\* dispatched for it was Added or Modified, and the entry then is the snapshot that
\* notification carried.
C1_CacheFollowsLastNotification ==
    \A id \in Identities :
        pc[id[1]] = "Watch.range" =>
            /\ HasEntry(id) <=> lastNote[id].type \in {"ADDED", "MODIFIED"}
            /\ HasEntry(id) => Stored(id) = lastNote[id].snapshot

C1_Witness ==
    /\ pc["g1"] = "Watch.range"
    /\ lastNote[IdA].type = "DELETED" /\ ~HasEntry(IdA)
    /\ lastNote[IdB].type = "MODIFIED" /\ Stored(IdB) = lastNote[IdB].snapshot
    /\ lastNote[IdB].old # GoNil

C3_AddedThenDeleted ==
    \A g \in Goroutines :
        (/\ pc[g] = "Print.return"
         /\ note[g].type = "DELETED"
         /\ lastNote[note[g].id].type = "ADDED") =>
            LET first == lastNote[note[g].id]
            IN  /\ first.rendered /\ first.old = GoNil /\ first.new = first.snapshot
                /\ \A b \in 1..Len(first.themes) : first.themes[b] = "create"
                /\ note[g].rendered /\ note[g].old = note[g].snapshot
                /\ note[g].new = GoNil
                /\ \A b \in Blocks(note[g].out) :
                       b.colorTheme.theme = "delete" /\ b.titleB.none
                /\ SelectSeq(note[g].calls, LAMBDA c : c = "PrintDiff") = <<"PrintDiff">>
                /\ ~HasEntry(note[g].id)

C3_Witness ==
    /\ pc["g1"] = "Print.return"
    /\ note["g1"].type = "DELETED" /\ note["g1"].id = IdA
    /\ lastNote[IdA].type = "ADDED"
    /\ lastNote[IdA].themes = <<"create">>
    /\ Len(note["g1"].out) = 1
    /\ ~HasEntry(IdA)

\* C4: a Modified notification that finds no cache entry is passed to PrintDiff
\* with a nil previous object and the zero time, and what is printed has the create
\* theme and the title "(none)" on the left; its snapshot is stored; the next
\* Modified notification of the identity is compared with that snapshot and what is
\* printed has the update theme.
C4_ModifiedWithoutEntry ==
    \A g \in Goroutines :
        /\ (/\ pc[g] = "Set.Lock"
            /\ note[g].type = "MODIFIED"
            /\ ~HasEntry(note[g].id)) =>
               /\ note[g].rendered /\ note[g].old = GoNil /\ note[g].seen = ZeroTime
               /\ \A b \in Blocks(note[g].out) :
                      b.colorTheme.theme = "create" /\ b.titleA.none
        /\ (/\ pc[g] = "Print.return"
            /\ note[g].type = "MODIFIED") => Stored(note[g].id) = note[g].snapshot
        /\ (/\ note[g].type = "MODIFIED"
            /\ note[g].rendered
            /\ lastNote[note[g].id].type = "MODIFIED"
            /\ lastNote[note[g].id].old = GoNil) =>
               /\ note[g].old = lastNote[note[g].id].snapshot
               /\ \A b \in Blocks(note[g].out) :
                      b.colorTheme.theme = "update" /\ ~b.titleA.none

C4_Witness ==
    /\ note["g1"].type = "MODIFIED" /\ note["g1"].rendered
    /\ Len(note["g1"].out) = 1
    /\ lastNote[note["g1"].id].type = "MODIFIED"
    /\ lastNote[note["g1"].id].old = GoNil
    /\ lastNote[note["g1"].id].themes = <<"create">>

\* C5: an Added notification never calls Get; its PrintDiff gets a nil previous
\* object and the zero time, also when the cache holds an entry for the identity;
\* when Print returns the entry is the snapshot of the notification.
C5_AddedIgnoresCache ==
    \A g \in Goroutines :
        (note[g].type = "ADDED" /\ note[g].dispatched) =>
            /\ pc[g] \in {"Added.PrintDiff", "Set.Lock", "Set.resource", "Set.lastSeen",
                          "Set.Unlock", "Print.return"}
            /\ IsPrefix(note[g].calls, <<"PrintDiff", "Set">>)
            /\ pc[g] # "Added.PrintDiff" =>
                   /\ note[g].rendered
                   /\ note[g].old = GoNil /\ note[g].seen = ZeroTime
                   /\ note[g].new = note[g].snapshot
                   /\ \A b \in Blocks(note[g].out) : b.titleA.none
            /\ pc[g] = "Print.return" => Stored(note[g].id) = note[g].snapshot

C5_Witness ==
    /\ pc["g1"] = "Print.return"
    /\ note["g1"].type = "ADDED"
    /\ lastNote[note["g1"].id].type \in {"ADDED", "MODIFIED"}
    /\ lastNote[note["g1"].id].snapshot # note["g1"].snapshot
    /\ Stored(note["g1"].id) = note["g1"].snapshot
    /\ Len(note["g1"].out) = 1

\* C6: when Print returns, PrintDiff has been called and after it Set (Added,
\* Modified) or Delete (Deleted), and the cache shows it, whether PrintDiff printed
\* a diff, printed nothing or returned an error; after an error the goroutine is in
\* the cache call or at the return of Print.
C6_CacheUpdatedWhateverTheRender ==
    \A g \in Goroutines :
        /\ (pc[g] = "Print.return" /\ note[g].type \in {"ADDED", "MODIFIED"}) =>
               /\ note[g].calls = Program(note[g].type)
               /\ Stored(note[g].id) = note[g].snapshot
        /\ (pc[g] = "Print.return" /\ note[g].type = "DELETED") =>
               /\ note[g].calls = Program(note[g].type)
               /\ ~HasEntry(note[g].id)
        /\ (note[g].rendered /\ note[g].err # NoError) =>
               /\ note[g].out = <<>>
               /\ pc[g] \in {"Set.Lock", "Set.resource", "Set.lastSeen", "Set.Unlock",
                             "Delete.Lock", "Delete.delete", "Delete.Unlock",
                             "Print.return"}

\* a failed PrintDiff after a suppressed one, and the failed snapshot stored
C6_Witness ==
    /\ pc["g1"] = "Print.return"
    /\ note["g1"].type = "MODIFIED" /\ note["g1"].id = IdB
    /\ note["g1"].err # NoError
    /\ Stored(IdB) = note["g1"].snapshot
    /\ lastNote[IdB].rendered /\ lastNote[IdB].err = NoError
    /\ lastNote[IdB].themes = <<>>

\* C7: the step that receives an error event, whose object is a Status and not an
\* unstructured object, changes neither the cache nor the heap, does not call
\* Print, and leaves the goroutine at the head of its loop.
C7_UnstructuredOnly ==
    [][\A g \in Goroutines :
          (note'[g].seq # note[g].seq /\ note'[g].type = "ERROR") =>
              /\ resources' = resources /\ heap' = heap /\ lastNote' = lastNote
              /\ ~note'[g].dispatched /\ ~note'[g].rendered /\ note'[g].calls = <<>>
              /\ pc'[g] = "Watch.range"]_vars

C7_Witness ==
    /\ note["g1"].type = "ERROR" /\ note["g1"].seq = MaxEvents
    /\ pc["g1"] = "Watch.range"
    /\ HasEntry(IdA)

\* the filters of the command line reject the object
Rejected(o) ==
    \/ /\ Len(watcher.resourceNames) > 0
       /\ \A i \in 1..Len(watcher.resourceNames) :
              ~nameMatches(GetName(o), watcher.resourceNames[i])
    \/ /\ Len(watcher.namespaces) > 0
       /\ \A i \in 1..Len(watcher.namespaces) :
              ~nameMatches(GetNamespace(o), watcher.namespaces[i])

\* C8: the step that receives a notification whose object the name or namespace
\* filter rejects changes neither the cache nor the heap, calls neither Print nor
\* Get, Set, Delete or PrintDiff, and leaves the goroutine at the head of its loop,
\* whatever the type of the notification.
C8_FilteredTouchesNothing ==
    [][\A g \in Goroutines :
          (/\ note'[g].seq # note[g].seq
           /\ note'[g].snapshot # GoNil
           /\ Rejected(note'[g].snapshot)) =>
              /\ resources' = resources /\ heap' = heap /\ lastNote' = lastNote
              /\ ~note'[g].dispatched /\ ~note'[g].rendered /\ note'[g].calls = <<>>
              /\ pc'[g] = "Watch.range"]_vars

C8_Witness ==
    /\ note["g1"].type = "DELETED" /\ Rejected(note["g1"].snapshot)
    /\ ~note["g1"].dispatched
    /\ pc["g1"] = "Watch.range"
    /\ resources # <<>>

\* C9: each goroutine takes the notifications of its channel in the order of
\* delivery; the calls made for the notification in hand are a prefix of Get (for
\* Modified), PrintDiff, Set or Delete, in this order, and all of them when Print
\* returns; at the head of the loop, where the next notification is taken, the
\* goroutine holds no object, no lock and no unfinished call.
C9_OneAtATimeInOrder ==
    \A g \in Goroutines :
        /\ chan[g] = [i \in 1..Len(chan[g]) |-> note[g].seq + i]
        /\ note[g].seq + Len(chan[g]) = delivered[g]
        /\ IsPrefix(note[g].calls, Program(note[g].type))
        /\ pc[g] = "Print.return" => note[g].calls = Program(note[g].type)
        /\ pc[g] = "Watch.range" =>
               /\ note[g].calls = <<>>
               /\ obj[g] = Nil /\ previous[g] = Nil /\ item[g] = NoItem
               /\ lock.writer # g /\ g \notin lock.readers

C9_Witness ==
    /\ pc["g1"] = "Set.Unlock" /\ note["g1"].calls = <<"Get", "PrintDiff">>
    /\ note["g1"].seq = 2 /\ chan["g1"] = <<3>>
    /\ pc["g2"] = "Set.Lock" /\ note["g2"].seq = 2

\* the statements of the cache that run with the write lock, and with the read lock
Writing == {"Set.resource", "Set.lastSeen", "Set.Unlock", "Delete.delete", "Delete.Unlock"}
Reading == {"Get.read", "Get.RUnlock"}

\* C10: no goroutine is inside Set or Delete while another is inside Get, Set or
\* Delete; what Get returns is nil with the zero time, or a snapshot and a time
\* that the same Set has stored.
C10_CacheCallsAtomic ==
    /\ \A g \in Goroutines, h \in Goroutines :
           (g # h /\ pc[g] \in Writing) => pc[h] \notin (Writing \cup Reading)
    /\ \A g \in Goroutines :
           pc[g] \in {"Get.RUnlock", "Client.return"} =>
               IF previous[g] = Nil
               THEN lastSeen[g] = ZeroTime /\ gotOrigin[g] = NoOrigin
               ELSE /\ lastSeen[g] \in Times
                    /\ gotOrigin[g].resource \in Goroutines
                    /\ gotOrigin[g].resource = gotOrigin[g].lastSeen

\* a Get that returns what the other goroutine stored, while that goroutine waits
\* to store the same key again
C10_Witness ==
    /\ pc["g1"] = "Get.RUnlock" /\ previous["g1"] # Nil
    /\ gotOrigin["g1"] = [resource |-> "g2", lastSeen |-> "g2"]
    /\ pc["g2"] = "Set.Lock" /\ Key("g2") = Key("g1")
    /\ heap[obj["g2"]] # heap[previous["g1"]]

\* the snapshot the cache holds under a key
Entry(k) == heap[resources[k].resource]

\* the pointers the callers hold
Held == ({obj[g] : g \in Goroutines} \cup {previous[g] : g \in Goroutines}) \ {Nil}

\* C11: when Set has stored, the entry equals the object it was given; what Get
\* returns equals the entry; no caller holds the pointer of an entry; and the
\* snapshot of an entry changes only by the map assignment of a Set or by a Delete of
\* its key, never by a caller that writes to the object it passed to Set or got from
\* Get.
C11_GetReturnsIndependentCopy ==
    /\ [](\A g \in Goroutines :
            /\ pc[g] = "Set.Unlock" => Entry(Key(g)) = heap[obj[g]]
            /\ (pc[g] = "Get.RUnlock" /\ previous[g] # Nil) =>
                   heap[previous[g]] = Entry(Key(g))
            /\ \A k \in DOMAIN resources : resources[k].resource \notin Held)
    /\ [][\A k \in DOMAIN resources :
             \/ k \in DOMAIN resources' /\ Entry(k)' = Entry(k)
             \/ \E g \in Goroutines :
                    /\ pc[g] \in {"Set.resource", "Delete.delete"}
                    /\ pc'[g] # pc[g]
                    /\ Key(g) = k]_vars

\* a caller has written to the object it had stored, another to the object Get had
\* returned to it for the same key, and the entry is still what was stored
C11_Witness ==
    /\ pc["g1"] = "Client.return" /\ previous["g1"] # Nil
    /\ heap[previous["g1"]] = Mutation(heap[previous["g1"]])
    /\ gotOrigin["g1"] = [resource |-> "g2", lastSeen |-> "g2"]
    /\ pc["g2"] = "Client.return" /\ Key("g2") = Key("g1")
    /\ heap[obj["g2"]] = Mutation(heap[obj["g2"]])
    /\ Key("g1") \in DOMAIN resources
    /\ Entry(Key("g1")) # Mutation(Entry(Key("g1")))

\* C12: a Get of a key whose last completed write was a Delete, or that was never
\* Set, returns nil and the zero time; the delete statement of a Delete whose key
\* has no entry leaves the map and the heap as they are, and Delete goes on to its
\* return.
C12_DeleteThenGetAbsent ==
    /\ [](\A g \in Goroutines :
            (pc[g] = "Get.RUnlock" /\ Key(g) \notin DOMAIN origin) =>
                previous[g] = Nil /\ lastSeen[g] = ZeroTime)
    /\ [][\A g \in Goroutines :
             (pc[g] = "Delete.delete" /\ pc'[g] # pc[g] /\ Key(g) \notin DOMAIN resources) =>
                 resources' = resources /\ heap' = heap /\ pc'[g] = "Delete.Unlock"]_vars

\* a Get that returns nil under the read lock after the other goroutine has deleted
\* the key, while another key still has its entry
C12_Witness ==
    /\ pc["g1"] = "Get.RUnlock" /\ previous["g1"] = Nil /\ lastSeen["g1"] = ZeroTime
    /\ pc["g2"] = "Client.return" /\ note["g2"].calls = <<"Delete">>
    /\ Key("g2") = Key("g1")
    /\ resources # <<>>

\* what the key of an object is made of: group, version and kind, namespace, name
KeyParts(o) == <<ParseGroupVersion(GetAPIVersion(o)), GetKind(o), GetNamespace(o), GetName(o)>>

\* C13: two objects with the same group, version and kind, the same namespace and
\* the same name have the same cache key, whatever else they contain.
C13_KeyOfIdentityOnly ==
    \A i \in 1..Len(call), j \in 1..Len(call) :
        KeyParts(call[i].in) = KeyParts(call[j].in) => call[i].out = call[j].out

\* two objects of one entity that differ in resource version and in spec
C13_Witness ==
    /\ Len(call) = 2
    /\ call[1].in # call[2].in
    /\ KeyParts(call[1].in) = KeyParts(call[2].in)
    /\ GetResourceVersion(call[1].in) # GetResourceVersion(call[2].in)
    /\ call[1].in.m["spec"] # call[2].in.m["spec"]
    /\ call[1].out = call[2].out

(***************************************************************************)
(* Properties of Differ.preprocess.  SpecPreprocess: preprocess called on  *)
(* nil and on snapshots, under every command line of DiffCommandLines.     *)
(***************************************************************************)
\* the query expression has a result on the tree (or there is no query expression)
HasResult(o) ==
    opt.compiledJSONPath = GoNil \/ Len(FindResults(o, opt.compiledJSONPath.fields)) > 0

\* the tree the query expression selects
Queried(o) ==
    IF opt.compiledJSONPath = GoNil THEN o
    ELSE FindResults(o, opt.compiledJSONPath.fields)[1]

\* the tree pruned to the include paths, if there are any
Included(node) ==
    IF Len(opt.parsedIncludePaths) = 0 THEN node
    ELSE Obj(PruneObject(node.m, opt.parsedIncludePaths).obj)

\* the tree without the exclude paths, removed one after the other
Excluded(node) ==
    IF Len(opt.parsedExcludePaths) = 0 THEN node
    ELSE Obj(RemovePaths(node.m, opt.parsedExcludePaths).obj)

\* the canonical encoding of a tree: its YAML text
Canonical(node) == JSONToYAML(Marshal(node).json)

\* the tree {spec: s} without s.labels, and without spec when nothing else is in it
SpecWithoutLabels(o) ==
    IF DOMAIN o.m["spec"].m \subseteq {"labels"} THEN Obj(EmptyMap)
    ELSE Obj([k \in {"spec"} |-> Obj(MapDelete(o.m["spec"].m, "labels"))])

\* C14: the projected text of a snapshot (one that can be encoded, and on which the
\* query expression, if there is one, selects an object) is the canonical encoding of
\* the query result, pruned to the include paths, then stripped of each exclude path in
\* turn; with --show spec --hide spec.labels it is the spec without its labels.
C14_QueryThenIncludeThenExclude ==
    \A i \in 1..Len(call) :
        LET o == call[i].in
        IN  /\ (o # GoNil /\ ~ContainsNaN(o) /\ HasResult(o) /\ IsMap(Queried(o)))
                  => call[i].out = [text |-> Canonical(Excluded(Included(Queried(o)))),
                                    err |-> NoError]
            /\ (o # GoNil /\ ~ContainsNaN(o) /\ IsMap(o.m["spec"])
                  /\ args = "stalk --show spec --hide spec.labels")
                  => call[i].out.text = Canonical(SpecWithoutLabels(o))

\* both effects in one behaviour: a snapshot with labels and replicas is projected to
\* its replicas, one with labels alone to the empty object
C14_Witness ==
    /\ args = "stalk --show spec --hide spec.labels"
    /\ Len(call) = 2
    /\ call[1].in # GoNil
    /\ "replicas" \in DOMAIN MapOf(call[1].in.m["spec"])
    /\ "labels" \in DOMAIN MapOf(call[1].in.m["spec"])
    /\ call[1].out.text = <<<<0, "spec", <<>>>>, <<1, "replicas", <<"2">>>>>>
    /\ call[2].in # GoNil
    /\ DOMAIN MapOf(call[2].in.m["spec"]) = {"labels"}
    /\ call[2].out.text = <<<<0, "", <<"{}">>>>>>

\* C15: when the query expression selects a value that is not an object, the
\* projected text is the encoding of that value alone, whatever the include and
\* exclude paths are.
C15_NonObjectResultSkipsPaths ==
    \A i \in 1..Len(call) :
        LET o == call[i].in
        IN  (o # GoNil /\ ~ContainsNaN(o) /\ opt.compiledJSONPath # GoNil
               /\ HasResult(o) /\ ~IsMap(Queried(o)))
              => call[i].out = [text |-> Canonical(Queried(o)), err |-> NoError]

\* the name of a snapshot selected under --show spec --hide metadata, or the scalar
\* spec of a snapshot selected under --show replicas --hide labels
C15_Witness ==
    /\ Len(call) = 1
    /\ call[1].in # GoNil
    /\ \/ /\ args = "stalk --jsonpath {.metadata.name} --show spec --hide metadata"
          /\ call[1].out = [text |-> <<<<0, "", <<"a">>>>>>, err |-> NoError]
       \/ /\ args = "stalk --jsonpath {.spec} --show replicas --hide labels"
          /\ call[1].in.m["spec"] = Leaf(<<"1">>)
          /\ call[1].out = [text |-> <<<<0, "", <<"1">>>>>>, err |-> NoError]

\* the texts of an empty projection: no text, the empty object, null
EmptyProjections == {<<>>, Canonical(Obj(EmptyMap)), Canonical(GoNil)}

\* C16: when a query expression is configured and selects nothing on a snapshot,
\* preprocess returns no error and the text of an empty projection, not the text of
\* the snapshot.
C16_NoMatchIsEmpty ==
    \A i \in 1..Len(call) :
        LET o == call[i].in
        IN  (o # GoNil /\ ~ContainsNaN(o) /\ opt.compiledJSONPath # GoNil /\ ~HasResult(o))
              => /\ call[i].out.err = NoError
                 /\ call[i].out.text \in EmptyProjections

(***************************************************************************)
(* Properties of Differ.PrintDiff.  SpecPrintDiff: PrintDiff called on     *)
(* pairs of objects, under every command line of PrintCommandLines.        *)
(***************************************************************************)
\* C17: when both sides of a render can be projected: with HideEmptyDiffs and equal
\* texts PrintDiff prints nothing and returns no error; with different texts, or
\* without HideEmptyDiffs, it prints exactly one block (of these two texts) and
\* returns no error.
C17_EmptyDiffHiddenElseOneBlock ==
    \A i \in 1..Len(call) :
        LET old == preprocess(call[i].in.oldObj)
            new == preprocess(call[i].in.newObj)
        IN  (old.err = NoError /\ new.err = NoError) =>
              /\ call[i].out.err = NoError
              /\ IF opt.HideEmptyDiffs /\ old.text = new.text
                 THEN call[i].out.out = <<>>
                 ELSE /\ Len(call[i].out.out) = 1
                      /\ call[i].out.out[1].oldString = old.text
                      /\ call[i].out.out[1].newString = new.text

\* two snapshots that differ in their labels only, under --show spec --hide
\* spec.labels: nothing is printed; then a snapshot and nil: one block
C17_Witness ==
    /\ args = "stalk --show spec --hide spec.labels"
    /\ Len(call) = 2
    /\ call[1].in.oldObj # GoNil /\ call[1].in.newObj # GoNil
    /\ call[1].in.oldObj # call[1].in.newObj
    /\ call[1].out = [err |-> NoError, out |-> <<>>]
    /\ call[2].in.newObj = GoNil
    /\ call[2].out.err = NoError
    /\ Len(call[2].out.out) = 1
    /\ call[2].out.out[1].newString = <<>>

\* without HideEmptyDiffs a block is printed for two equal texts
C17_WitnessShowEmpty ==
    /\ args = "stalk --show-empty --hide spec"
    /\ Len(call) = 1
    /\ call[1].in.oldObj # GoNil /\ call[1].in.newObj # GoNil
    /\ Len(call[1].out.out) = 1
    /\ call[1].out.out[1].oldString = call[1].out.out[1].newString

(***************************************************************************)
(* The theme of a render, in the running program (Spec).                   *)
(***************************************************************************)
\* C18: whatever a notification prints has the create theme when the previous object
\* given to PrintDiff is nil, the delete theme when the current object is nil and the
\* update theme when neither is; so it has the create theme for Added, the delete
\* theme for Deleted, and for Modified the update theme if Get found an entry and the
\* create theme if it found none.
C18_ThemeFollowsAbsentSide ==
    \A g \in Goroutines :
        note[g].rendered =>
            \A b \in Blocks(note[g].out) :
                /\ note[g].old = GoNil => b.colorTheme.theme = "create"
                /\ note[g].new = GoNil => b.colorTheme.theme = "delete"
                /\ (note[g].old # GoNil /\ note[g].new # GoNil)
                       => b.colorTheme.theme = "update"
                /\ note[g].type = "ADDED" => b.colorTheme.theme = "create"
                /\ note[g].type = "DELETED" => b.colorTheme.theme = "delete"
                /\ note[g].type = "MODIFIED" =>
                       /\ b.colorTheme.theme \in {"create", "update"}
                       /\ b.colorTheme.theme = "update" <=> gotOrigin[g] # NoOrigin

\* a Modified notification printed with the update theme after Get found the entry
\* that an earlier Modified notification, printed with the create theme, had stored
C18_Witness ==
    /\ note["g1"].type = "MODIFIED" /\ note["g1"].id = IdA
    /\ note["g1"].rendered
    /\ gotOrigin["g1"] # NoOrigin
    /\ Len(note["g1"].out) = 1
    /\ note["g1"].out[1].colorTheme.theme = "update"
    /\ lastNote[IdA].type = "MODIFIED"
    /\ lastNote[IdA].themes = <<"create">>

(***************************************************************************)
(* Properties of maputil.RemovePath.  SpecRemovePath: RemovePath called on *)
(* every tree of RemoveTrees with every path of TestPaths.                 *)
(***************************************************************************)
\* the value a path leads to in a tree, Missing if it leads nowhere
Missing == [t |-> "missing"]

RECURSIVE Lookup(_, _)
Lookup(node, path) ==
    IF Len(path) = 0 THEN node
    ELSE IF IsMap(node) /\ path[1] \in DOMAIN node.m
    THEN Lookup(node.m[path[1]], Rest(path))
    ELSE Missing

\* the first n segments of a path
Prefix(path, n) == SubSeq(path, 1, n)

\* the calls of RemovePath with a path of two or more segments that have returned
MultiSegment == {i \in 1..Len(call) : call[i].out # Running /\ Len(call[i].in.path) >= 2}

\* C19: after RemovePath with a path of two or more segments there is no error, no
\* ancestor of the path is an empty object, the addressed value is gone if its
\* ancestors were objects, every child of an ancestor (and of the root) that is not
\* on the path is where and what it was, and removing foo.bar from {foo: {bar: 12}}
\* gives {}.
C19_RemovePathCollapsesEmptiedAncestors ==
    \A i \in MultiSegment :
        LET path == call[i].in.path
            before == Obj(call[i].in.obj)
            after == Obj(call[i].out.obj)
        IN  /\ call[i].out.err = NoError
            /\ \A n \in 1..(Len(path) - 1) : Lookup(after, Prefix(path, n)) # Obj(EmptyMap)
            /\ (\A n \in 1..(Len(path) - 1) : IsMap(Lookup(before, Prefix(path, n))))
                  => Lookup(after, path) = Missing
            /\ \A n \in 0..(Len(path) - 1) : \A k \in PathKeys \ {path[n + 1]} :
                  Lookup(before, Append(Prefix(path, n), k)) # Missing
                     => Lookup(after, Append(Prefix(path, n), k))
                           = Lookup(before, Append(Prefix(path, n), k))
            /\ (before = Obj([k \in {"foo"} |-> Obj([j \in {"bar"} |-> Leaf(<<"12">>)])])
                  /\ path = <<"foo", "bar">>)
                  => after = Obj(EmptyMap)

\* the collapse through two ancestors: foo.foo.bar removed from
\* {foo: {foo: {bar: 12}}} leaves {}
C19_Witness ==
    /\ Len(call) = 1
    /\ call[1].in.path = <<"foo", "foo", "bar">>
    /\ call[1].in.obj =
          [k \in {"foo"} |-> Obj([j \in {"foo"} |-> Obj([l \in {"bar"} |-> Leaf(<<"12">>)])])]
    /\ call[1].out = [obj |-> EmptyMap, err |-> NoError]

\* an ancestor that keeps another child: foo.bar removed from {foo: {bar: 12, foo: 12}}
\* leaves {foo: {foo: 12}}
C19_WitnessKept ==
    /\ Len(call) = 1
    /\ call[1].in.path = <<"foo", "bar">>
    /\ call[1].in.obj = [k \in {"foo"} |-> Obj([j \in {"foo", "bar"} |-> Leaf(<<"12">>)])]
    /\ call[1].out = [obj |-> [k \in {"foo"} |-> Obj([j \in {"foo"} |-> Leaf(<<"12">>)])],
                      err |-> NoError]

\* C20: RemovePath with a path of two or more segments whose first segment is no key
\* of the tree, or the key of a value that is no object, returns the tree as it was
\* and no error.
C20_AbsentOrNonObjectHeadUnchanged ==
    \A i \in MultiSegment :
        LET head == call[i].in.path[1]
            tree == call[i].in.obj
        IN  (head \notin DOMAIN tree \/ ~IsMap(tree[head]))
               => call[i].out = [obj |-> tree, err |-> NoError]

\* foo.bar removed from {foo: [1,2,3]} gives {foo: [1,2,3]}
C20_Witness ==
    /\ Len(call) = 1
    /\ call[1].in = [obj |-> [k \in {"foo"} |-> Leaf(<<"[1,2,3]">>)],
                     path |-> <<"foo", "bar">>]
    /\ call[1].out = [obj |-> [k \in {"foo"} |-> Leaf(<<"[1,2,3]">>)], err |-> NoError]

\* the head is absent: foo.bar removed from {bar: {bar: 12}} changes nothing
C20_WitnessAbsent ==
    /\ Len(call) = 1
    /\ call[1].in = [obj |-> [k \in {"bar"} |-> Obj([j \in {"bar"} |-> Leaf(<<"12">>)])],
                     path |-> <<"foo", "bar">>]
    /\ call[1].out = [obj |-> call[1].in.obj, err |-> NoError]

\* C21: removing a path of one or more segments from the tree that RemovePath
\* returned for that path returns the same tree, and no error.
C21_RemovePathIdempotent ==
    (Len(call) = 2 /\ Len(call[1].in.path) >= 1) =>
        /\ call[2].in.obj = call[1].out.obj
        /\ call[2].out = call[1].out
        /\ call[2].out.err = NoError

\* foo.bar removed from {foo: {bar: 12, foo: 12}}, then from {foo: {foo: 12}}
C21_Witness ==
    /\ Len(call) = 2
    /\ call[1].in.path = <<"foo", "bar">>
    /\ call[1].in.obj = [k \in {"foo"} |-> Obj([j \in {"foo", "bar"} |-> Leaf(<<"12">>)])]
    /\ call[1].out.obj # call[1].in.obj
    /\ call[2].in.obj = [k \in {"foo"} |-> Obj([j \in {"foo"} |-> Leaf(<<"12">>)])]
    /\ call[2].out.obj = call[2].in.obj

(***************************************************************************)
(* Properties of maputil.PruneObject.  SpecPruneObject: PruneObject called *)
(* on every tree of Shallow with every path list of PathLists.             *)
(***************************************************************************)
\* the calls of PruneObject that have returned without an error
Pruned == {i \in 1..Len(call) : call[i].out # Running /\ call[i].out.err = NoError}

\* C22: whenever one of the paths ends exactly at a key of the input (at any level),
\* the value under that key is in the result as it was in the input, whatever the
\* other paths are and wherever the path stands in the list.
C22_ShortestPathWins ==
    \A i \in Pruned :
        \A n \in 1..Len(call[i].in.paths) :
            LET path == call[i].in.paths[n]
                value == Lookup(Obj(call[i].in.obj), path)
            IN  value # Missing => Lookup(Obj(call[i].out.obj), path) = value

\* the paths of a set that apply below a key: the tails of those that start with it
Below(paths, key) == {PathTail(p) : p \in {q \in paths : PathHead(q) = key}}

\* a result holds exactly what the paths reach in an input: its keys are the keys of
\* the input that start one of the paths; below such a key the value is the value of
\* the input if that is no object or a path ends at the key, and otherwise it is an
\* object that holds exactly what the paths below the key reach
RECURSIVE Reached(_, _, _)
Reached(input, result, paths) ==
    /\ DOMAIN result = {k \in DOMAIN input : \E p \in paths : PathHead(p) = k}
    /\ \A k \in DOMAIN result :
          IF ~IsMap(input[k]) \/ <<>> \in Below(paths, k)
          THEN result[k] = input[k]
          ELSE IsMap(result[k]) /\ Reached(input[k].m, result[k].m, Below(paths, k))

\* C23: the result of PruneObject holds exactly what the paths reach in the input: at
\* every level a key is in the result if and only if it is in the input and one of
\* the paths that apply at that level starts with it, and the values kept are the
\* values of the input.
C23_KeepsOnlyWhatPathsReach ==
    \A i \in Pruned :
        Reached(call[i].in.obj, call[i].out.obj,
                {call[i].in.paths[n] : n \in 1..Len(call[i].in.paths)})

\* C24: when a path goes on below a key whose value in the input is no object (an
\* array, a scalar, null), the result has that key with that value.
C24_NonObjectValueKeptWhole ==
    \A i \in Pruned :
        \A n \in 1..Len(call[i].in.paths) :
            LET path == call[i].in.paths[n]
            IN  \A m \in 1..(Len(path) - 1) :
                    LET value == Lookup(Obj(call[i].in.obj), Prefix(path, m))
                    IN  (value # Missing /\ ~IsMap(value))
                           => Lookup(Obj(call[i].out.obj), Prefix(path, m)) = value

(***************************************************************************)
(* Errors of package maputil.  SpecMaputil: RemovePath and PruneObject.    *)
(***************************************************************************)
\* the calls that have returned
Done == {i \in 1..Len(call) : call[i].out # Running}

\* a path list PruneObject accepts: not empty, and none of its paths is empty
ValidPaths(paths) == Len(paths) > 0 /\ \A n \in 1..Len(paths) : Len(paths[n]) > 0

\* C25: RemovePath with an empty path returns an error and the tree it was given;
\* PruneObject with an empty list, or with a list that holds an empty path, returns an
\* error and the tree it was given; PruneObject with any other list returns no error.
C25_EmptyPathsAreErrors ==
    \A i \in Done :
        IF "path" \in DOMAIN call[i].in
        THEN Len(call[i].in.path) = 0
                => call[i].out.err # NoError /\ call[i].out.obj = call[i].in.obj
        ELSE IF ValidPaths(call[i].in.paths)
             THEN call[i].out.err = NoError
             ELSE call[i].out.err # NoError /\ call[i].out.obj = call[i].in.obj

\* PruneObject with the paths foo and the empty path, on a tree that has foo and bar
C25_Witness ==
    /\ Len(call) = 1
    /\ "paths" \in DOMAIN call[1].in
    /\ call[1].in.paths = <<<<"foo">>, <<>>>>
    /\ DOMAIN call[1].in.obj = {"foo", "bar"}
    /\ call[1].out = [obj |-> call[1].in.obj, err |-> "path is empty"]

\* RemovePath with the empty path, on a tree that has foo
C25_WitnessRemovePath ==
    /\ Len(call) = 1
    /\ "path" \in DOMAIN call[1].in
    /\ call[1].in.path = <<>>
    /\ "foo" \in DOMAIN call[1].in.obj
    /\ call[1].out = [obj |-> call[1].in.obj, err |-> "path cannot be empty"]

(***************************************************************************)
(* Properties of maputil.ParsePath, Path.Head and Path.Tail.               *)
(* SpecParsePath: ParsePath called on every expression of Expressions,     *)
(* then Head and Tail on the path it returned.                             *)
(***************************************************************************)
\* the words of an expression, in their order
Words(expr) == SelectSeq(expr, LAMBDA lexeme : lexeme # ".")

\* C26: ParsePath returns an error for the empty expression and for an expression
\* without a word (only dots); for any other expression it returns, without error,
\* the words of the expression in their order, so a path of one or more segments
\* none of which is empty.  Head and Tail are defined on every path: on the empty path
\* Head is the empty string and Tail is empty, on a path of one segment Tail is empty,
\* and otherwise they are the first segment and the segments after it.
C26_ParsePathKeepsNonEmptyTokens ==
    /\ (Len(call) >= 1 /\ call[1].out # Running) =>
          IF Len(Words(call[1].in)) = 0
          THEN call[1].out.err # NoError /\ Len(call[1].out.path) = 0
          ELSE /\ call[1].out = [path |-> Words(call[1].in), err |-> NoError]
               /\ Len(call[1].out.path) >= 1
               /\ \A n \in 1..Len(call[1].out.path) : call[1].out.path[n] # ""
    /\ Len(call) = 2 =>
          IF Len(call[2].in) = 0
          THEN call[2].out = [head |-> "", tail |-> <<>>]
          ELSE /\ call[2].out.head = call[2].in[1]
               /\ <<call[2].out.head>> \o call[2].out.tail = call[2].in
               /\ Len(call[2].in) = 1 => call[2].out.tail = <<>>

\* ".foo..bar." is parsed to the path foo.bar, with Head foo and Tail bar
C26_Witness ==
    /\ Len(call) = 2
    /\ call[1].in = <<".", "foo", ".", ".", "bar">>
    /\ call[1].out = [path |-> <<"foo", "bar">>, err |-> NoError]
    /\ call[2].out = [head |-> "foo", tail |-> <<"bar">>]

\* "..." is no path, and Head and Tail of the nil path are empty
C26_WitnessDots ==
    /\ Len(call) = 2
    /\ call[1].in = <<".", ".", ".">>
    /\ call[1].out.err = "path does not contain a single path element"
    /\ call[2].out = [head |-> "", tail |-> <<>>]

\* an expression without a single word: empty, or dots only
NoWord(expr) == \A i \in 1..Len(expr) : expr[i] = "."

\* a query whose action is not closed
Unclosed(text) == Len(text) > 0 /\ text[Len(text)] # "}"

\* the options that the configuration errors are about
Misconfigured(o) ==
    \/ o.ContextLines < 0
    \/ Unclosed(o.JSONPath)
    \/ \E i \in 1..Len(o.IncludePaths) : NoWord(o.IncludePaths[i])
    \/ \E i \in 1..Len(o.ExcludePaths) : NoWord(o.ExcludePaths[i])

\* no goroutine has been started, nothing has been sent, received, printed or stored
NothingWatched ==
    /\ \A g \in Goroutines :
         pc[g] = "" /\ delivered[g] = 0 /\ Len(chan[g]) = 0 /\ note[g] = NoNote
    /\ heap = <<>>
    /\ resources = <<>>
    /\ origin = <<>>

\* C27: with a negative number of context lines, an include or exclude expression
\* that cannot be parsed or a query that cannot be parsed, Validate returns an error,
\* main gets no further than its exit with that error, no goroutine is started and
\* no event is received; and NewDiffer returns a Differ only for options that pass
\* Validate, whose paths are then all parsed: main is past NewDiffer only with them.
C27_ConfigurationErrorsFailFast ==
    /\ Misconfigured(differOpts) =>
         /\ Validate(differOpts).err # NoError
         /\ NewDiffer(differOpts).differ = GoNil
         /\ process.main \in {"Validate", "exit"}
         /\ process.main = "exit" => process.err = Validate(differOpts).err
         /\ NothingWatched
    /\ ~Misconfigured(differOpts) =>
         /\ Validate(differOpts).err = NoError
         /\ opt # GoNil
         /\ Len(opt.parsedIncludePaths) = Len(differOpts.IncludePaths)
         /\ Len(opt.parsedExcludePaths) = Len(differOpts.ExcludePaths)
         /\ process.err = NoError
    /\ ~NothingWatched =>
         /\ ~Misconfigured(differOpts)
         /\ process.main \notin {"Validate", "NewDiffer"}

\* main has exited on the error of Validate
C27_Witness ==
    /\ Misconfigured(differOpts)
    /\ process.main = "exit"
    /\ process.err \in {"context lines cannot be negative", "invalid JSON path",
                        "invalid include expression", "invalid exclude expression"}

\* with valid options, a goroutine prints what it has received
C27_WitnessValid ==
    /\ ~Misconfigured(differOpts)
    /\ process.main = "wg.Wait"
    /\ \E g \in Goroutines : pc[g] = "Print.return"

\* every goroutine has returned from Watch and main from wg.Wait()
AllReturned ==
    /\ \A g \in Goroutines : pc[g] = "Watch.done"
    /\ process.main = "exit"

\* C28: once the context is cancelled, every goroutine eventually returns from Watch
\* and main from wg.Wait(), whether or not the source closes the channel or has more
\* events to send.
C28_CancelStopsEveryWorker == process.cancelled ~> AllReturned

\* the symbols i+1..j of a string
Between(str, i, j) == {str[k] : k \in (i + 1)..j}

\* a glob pattern matches a name when the name can be cut into one piece per symbol
\* of the pattern: any run without "/" for "*", one symbol other than "/" for "?",
\* the symbol itself otherwise; a pattern with an unclosed "[" matches nothing
Globs(pattern, name) ==
    /\ "[" \notin Between(pattern, 0, Len(pattern))
    /\ \E cut \in [0..Len(pattern) -> 0..Len(name)] :
         /\ cut[0] = 0
         /\ cut[Len(pattern)] = Len(name)
         /\ \A i \in 1..Len(pattern) :
              /\ cut[i - 1] <= cut[i]
              /\ "/" \notin Between(name, cut[i - 1], cut[i]) \/ pattern[i] \notin {"*", "?"}
              /\ pattern[i] # "*" => cut[i] = cut[i - 1] + 1
              /\ pattern[i] \notin {"*", "?"} => name[cut[i]] = pattern[i]

\* a name passes an allow-list
Allowed(name, patterns) ==
    \/ Len(patterns) = 0
    \/ \E i \in 1..Len(patterns) :
         IF "*" \in Between(patterns[i], 0, Len(patterns[i]))
         THEN Globs(patterns[i], name)
         ELSE name = patterns[i]

C29_WitnessMalformed ==
    /\ args = "stalk -n n[*"
    /\ note["g1"].id = Identity("g1", EntityA)
    /\ note["g1"].snapshot # GoNil
    /\ ~note["g1"].dispatched

\* without a "*" the pattern a? is a name, which a is not
C29_WitnessEquality ==
    /\ args = "stalk a?"
    /\ note["g1"].id = Identity("g1", EntityA)
    /\ note["g1"].snapshot # GoNil
    /\ ~note["g1"].dispatched

\* C30: under a namespace allow-list, the event about a cluster-scoped entity (one
\* without a namespace) whose name passes the allow-list of names is dispatched to
\* Print, and printed by the time Print returns.
C30_ClusterScopedPassNamespaces ==
    \A g \in Goroutines :
        (/\ note[g].snapshot # GoNil
         /\ Len(note[g].id[2]) = 0
         /\ Len(watcher.namespaces) > 0
         /\ Allowed(note[g].id[3], watcher.resourceNames)) =>
            /\ note[g].dispatched
            /\ pc[g] = "Print.return" => note[g].rendered

\* the entry of the cache under a key: absent, or the snapshot and its time
Cached(r, h, k) ==
    IF k \in DOMAIN r THEN <<h[r[k].resource], r[k].lastSeen>> ELSE <<>>

\* C31: two goroutines that are inside Print hold objects with different cache keys,
\* and while a goroutine handles a Modified event, from before its Get until after
\* its Set, no step of another goroutine changes the entry under its key.
C31_WorkersOnDisjointKeys ==
    /\ [](\A g \in Goroutines, h \in Goroutines :
             (g # h /\ obj[g] # Nil /\ obj[h] # Nil) => Key(g) # Key(h))
    /\ [][\A g \in Goroutines :
             (/\ note[g].type = "MODIFIED" /\ obj[g] # Nil
              /\ pc'[g] = pc[g]) =>
                 Cached(resources', heap', Key(g)) = Cached(resources, heap, Key(g))]_vars

\* g1 is between the Get and the Set of a Modified event about n1/a while g2 stores
\* the n1/a of its own kind
C31_Witness ==
    /\ note["g1"].type = "MODIFIED" /\ pc["g1"] = "Modified.PrintDiff"
    /\ note["g2"].type = "ADDED" /\ pc["g2"] = "Set.lastSeen"
    /\ note["g1"].id[3] = note["g2"].id[3] /\ note["g1"].id[2] = note["g2"].id[2]
    /\ Key("g1") # Key("g2")

\* C32: rendering never modifies the snapshots passed to it.  While a worker holds
\* the object of a rendered notification, the object is the snapshot as delivered,
\* and so is the cached object it was compared with; every cache entry is a full
\* delivered snapshot; and the previous text of a Modified render is the projection
\* of the full snapshot of the notification before.
Projectable(o) == Left(o, objectItself(o, UnmarshalMap(Marshal(o).json))) # o

C32_RenderingLeavesSnapshots ==
    /\ \A g \in Goroutines :
           (note[g].rendered /\ obj[g] # Nil) =>
               /\ heap[obj[g]] = note[g].snapshot
               /\ previous[g] # Nil => heap[previous[g]] = note[g].old
    /\ \A id \in Identities :
           HasEntry(id) => Stored(id) \in {lastNote[id].snapshot, note[id[1]].snapshot}
    /\ \A g \in Goroutines :
           (/\ note[g].type = "MODIFIED" /\ note[g].rendered
            /\ note[g].out # <<>> /\ lastNote[note[g].id].type \in {"ADDED", "MODIFIED"}) =>
               note[g].out[1].oldString = preprocess(lastNote[note[g].id].snapshot).text

C32_Witness ==
    /\ note["g1"].type = "MODIFIED" /\ note["g1"].rendered /\ pc["g1"] = "Print.return"
    /\ note["g1"].old # GoNil /\ note["g1"].out # <<>>
    /\ Projectable(note["g1"].snapshot) /\ Projectable(note["g1"].old)
    /\ HasEntry(note["g1"].id) /\ Stored(note["g1"].id) = note["g1"].snapshot
    /\ heap[obj["g1"]] = note["g1"].snapshot


\* whether the tree has a value at the full path
RECURSIVE Present(_, _)
Present(tree, path) ==
    /\ Len(path) >= 1
    /\ path[1] \in DOMAIN tree
    /\ \/ Len(path) = 1
       \/ IsMap(tree[path[1]]) /\ Present(tree[path[1]].m, PathTail(path))

\* the part of the path that leads to an object without keys, <<>> if the path
\* meets none before its last segment
RECURSIVE EmptyOn(_, _)
EmptyOn(tree, path) ==
    IF Len(path) <= 1 THEN <<>>
    ELSE IF path[1] \notin DOMAIN tree THEN <<>>
    ELSE IF ~IsMap(tree[path[1]]) THEN <<>>
    ELSE IF DOMAIN tree[path[1]].m = {} THEN <<path[1]>>
    ELSE IF EmptyOn(tree[path[1]].m, PathTail(path)) = <<>> THEN <<>>
    ELSE <<path[1]>> \o EmptyOn(tree[path[1]].m, PathTail(path))

\* the calls of RemovePath that have returned, with a path that has segments and
\* meets a missing segment in the tree
Missed == {i \in 1..Len(call) : /\ "path" \in DOMAIN call[i].in
                                /\ call[i].out.err # "running"
                                /\ Len(call[i].in.path) >= 1
                                /\ ~Present(call[i].in.obj, call[i].in.path)}

\* C33 as stated: when the tree has no value at the full path, RemovePath returns
\* the tree as it was.
C33_MissingSegmentUnchanged ==
    \A i \in Missed : call[i].out = [obj |-> call[i].in.obj, err |-> NoError]

\* C33, amended: when the tree has no value at the full path, RemovePath returns the
\* tree as it was unless the path meets an object without keys before its last
\* segment; then that object is removed as by RemovePath with the path to it.
C33_MissingSegmentUnchangedButEmptyObjects ==
    \A i \in Missed :
        call[i].out = IF EmptyOn(call[i].in.obj, call[i].in.path) = <<>>
                      THEN [obj |-> call[i].in.obj, err |-> NoError]
                      ELSE RemovePath(call[i].in.obj,
                                      EmptyOn(call[i].in.obj, call[i].in.path))

\* foo.bar.foo removed from {foo: {bar: {}, foo: 12}} gives {foo: {foo: 12}}
C33_Witness ==
    /\ Len(call) = 1
    /\ call[1].in = [obj |-> [k \in {"foo"} |->
                                Obj([j \in {"foo", "bar"} |->
                                       IF j = "bar" THEN Obj(EmptyMap)
                                       ELSE Leaf(<<"12">>)])],
                     path |-> <<"foo", "bar", "foo">>]
    /\ call[1].out = [obj |-> [k \in {"foo"} |-> Obj([j \in {"foo"} |-> Leaf(<<"12">>)])],
                      err |-> NoError]

\* foo.foo removed from {foo: {bar: 12}}: nothing at the path, nothing changes
C33_WitnessUnchanged ==
    /\ Len(call) = 1
    /\ call[1].in = [obj |-> [k \in {"foo"} |-> Obj([j \in {"bar"} |-> Leaf(<<"12">>)])],
                     path |-> <<"foo", "foo">>]
    /\ call[1].out = [obj |-> call[1].in.obj, err |-> NoError]


(***************************************************************************)
(* Properties of the projection.  SpecProject: PrintDiff called with every *)
(* pair of ProjectObjects under include paths only and exclude paths only. *)
(***************************************************************************)
\* the calls of PrintDiff that have returned, under include paths and nothing else
IncludeOnly ==
    {i \in 1..Len(call) : /\ call[i].out # [err |-> "running"]
                          /\ Len(opt.parsedIncludePaths) > 0
                          /\ Len(opt.parsedExcludePaths) = 0
                          /\ Len(opt.JSONPath) = 0}

\* what an include path shows of a tree: nothing where its head is missing, the
\* value where the path ends or meets a value that is no object, and below an
\* object what the rest of the path shows of it
RECURSIVE Shown(_, _)
Shown(tree, path) ==
    IF path[1] \notin DOMAIN tree THEN Missing
    ELSE IF Len(path) = 1 \/ ~IsMap(tree[path[1]]) THEN tree[path[1]]
    ELSE [t |-> "obj", shown |-> Shown(tree[path[1]].m, Rest(path))]

\* the two objects of a call are projected to the same text and nothing is printed
Hidden(i) ==
    /\ call[i].out.err = NoError
    /\ call[i].out.old.text = call[i].out.new.text
    /\ opt.HideEmptyDiffs => call[i].out.out = <<>>

\* C34 as stated: under include paths only, two snapshots with the same value, or
\* both with none, at every include path are projected to the same text, and with
\* HideEmptyDiffs nothing is printed for them.
C34_IncludeHidesTheRest ==
    \A i \in IncludeOnly :
        (\A k \in 1..Len(opt.parsedIncludePaths) :
            Lookup(call[i].in.oldObj, opt.parsedIncludePaths[k])
                = Lookup(call[i].in.newObj, opt.parsedIncludePaths[k]))
            => Hidden(i)

\* C34, amended: under include paths only, two snapshots of which every include
\* path shows the same are projected to the same text, and with HideEmptyDiffs
\* nothing is printed for them.  What a path shows includes the objects it goes
\* through and a value that is no object met before its end.
C34_IncludeHidesWhatNoPathShows ==
    \A i \in IncludeOnly :
        (\A k \in 1..Len(opt.parsedIncludePaths) :
            Shown(call[i].in.oldObj.m, opt.parsedIncludePaths[k])
                = Shown(call[i].in.newObj.m, opt.parsedIncludePaths[k]))
            => Hidden(i)

\* --show spec.replicas: labels changed, replicas the same, nothing printed
C34_Witness ==
    /\ args = "stalk --hide-managed=false --show spec.replicas"
    /\ call[1].in.oldObj = Snapshot("g1", EntityA,
                                    Obj([k \in {"labels", "replicas"} |-> Leaf(<<"1">>)]))
    /\ call[1].in.newObj = Snapshot("g1", EntityA,
                                    Obj([k \in {"labels", "replicas"} |->
                                           IF k = "labels"
                                           THEN Obj([j \in {"a"} |-> Leaf(<<"2">>)])
                                           ELSE Leaf(<<"1">>)]))
    /\ call[1].out # [err |-> "running"]
    /\ Hidden(1)


\* the calls of PrintDiff that have returned, under exclude paths and no query
Excluding ==
    {i \in 1..Len(call) : /\ call[i].out # [err |-> "running"]
                          /\ Len(opt.parsedExcludePaths) > 0
                          /\ Len(opt.JSONPath) = 0}

\* two trees that differ in nothing but the value or the presence of the field at
\* the path: the objects the path goes through are there in both
RECURSIVE SameBut(_, _, _)
SameBut(old, new, path) ==
    \/ old = new
    \/ /\ Len(path) = 1
       /\ MapDelete(old, path[1]) = MapDelete(new, path[1])
    \/ /\ Len(path) > 1
       /\ MapDelete(old, path[1]) = MapDelete(new, path[1])
       /\ path[1] \in DOMAIN old /\ path[1] \in DOMAIN new
       /\ IsMap(old[path[1]]) /\ IsMap(new[path[1]])
       /\ SameBut(old[path[1]].m, new[path[1]].m, Rest(path))

\* C35: two snapshots that differ only in the value or the presence of the field at
\* one of the exclude paths are projected to the same text, and with HideEmptyDiffs
\* nothing is printed for them.
C35_ExcludeHidesTheField ==
    \A i \in Excluding :
        (\E k \in 1..Len(opt.parsedExcludePaths) :
            SameBut(call[i].in.oldObj.m, call[i].in.newObj.m, opt.parsedExcludePaths[k]))
            => Hidden(i)

\* --hide spec.labels: a snapshot with labels and replicas, then without labels
C35_Witness ==
    /\ args = "stalk --hide spec.labels"
    /\ call[1].in.oldObj = Snapshot("g1", EntityA,
                                    Obj([k \in {"labels", "replicas"} |-> Leaf(<<"1">>)]))
    /\ call[1].in.newObj = Snapshot("g1", EntityA,
                                    Obj([k \in {"replicas"} |-> Leaf(<<"1">>)]))
    /\ call[1].out # [err |-> "running"]
    /\ Hidden(1)

\* the managed fields are all that has changed: nothing is printed
C35_WitnessManaged ==
    /\ args = "stalk --hide spec.labels"
    /\ call[1].in.oldObj = Snapshot("g1", EntityA, Leaf(<<"1">>))
    /\ call[1].in.newObj = Managed(Snapshot("g1", EntityA, Leaf(<<"1">>)))
    /\ call[1].out # [err |-> "running"]
    /\ Hidden(1)

\* --hide spec.labels.a: the only label goes away, labels stays as an empty object
C35_WitnessEmptied ==
    /\ args = "stalk --hide spec.labels.a"
    /\ call[1].in.oldObj = Snapshot("g1", EntityA,
                                    Obj([k \in {"labels"} |->
                                           Obj([j \in {"a"} |-> Leaf(<<"1">>)])]))
    /\ call[1].in.newObj = Snapshot("g1", EntityA,
                                    Obj([k \in {"labels"} |-> Obj(EmptyMap)]))
    /\ call[1].out # [err |-> "running"]
    /\ Hidden(1)


\* C36: removing two paths from a tree gives the same tree, and no error, whichever
\* of the two is removed first.
C36_ExcludeOrderIrrelevant ==
    Len(call) = 2 =>
        /\ call[2].in.obj = call[1].in.obj
        /\ call[2].in.paths = <<call[1].in.paths[2], call[1].in.paths[1]>>
        /\ call[2].out = call[1].out
        /\ call[2].out.err = NoError

\* foo.bar and foo.foo.bar removed from {foo: {bar: 12, foo: {}}}: either order
\* leaves {}, through different trees in between
C36_Witness ==
    /\ Len(call) = 2
    /\ call[1].in.obj = [k \in {"foo"} |->
                            Obj([j \in {"foo", "bar"} |->
                                   IF j = "foo" THEN Obj(EmptyMap) ELSE Leaf(<<"12">>)])]
    /\ call[1].in.paths = <<<<"foo", "bar">>, <<"foo", "foo", "bar">>>>
    /\ RemovePath(call[1].in.obj, call[1].in.paths[1]).obj
           # RemovePath(call[1].in.obj, call[1].in.paths[2]).obj
    /\ call[1].out = [obj |-> EmptyMap, err |-> NoError]
    /\ call[2].out = call[1].out


\* C37: PruneObject returns the same object, and no error, for every order and
\* repetition of the same paths and every order in which the range loop visits the
\* keys, the one PruneObject of the model stands for included; called again on the
\* object it has returned, with the same paths, it returns that object.
C37_PruneObjectDependsOnPathSet ==
    /\ \A i \in 1..Len(call) :
           call[i].out # Running =>
               call[i].out = PruneObject(call[i].in.obj, call[i].in.paths)
    /\ Len(call) = 2 =>
           /\ call[2].out.err = NoError
           /\ call[2].in.obj = call[1].in.obj => call[2].out = call[1].out
           /\ call[2].in.obj = call[1].out.obj => call[2].out.obj = call[2].in.obj

\* metadata-like: [foo.bar, foo] and [foo, foo.bar] on {foo: {bar: 12, foo: 12},
\* bar: null}, the keys visited in opposite orders
C37_Witness ==
    /\ Len(call) = 2
    /\ call[1].in.obj = [k \in {"foo", "bar"} |->
                            IF k = "bar" THEN GoNil
                            ELSE Obj([j \in {"foo", "bar"} |-> Leaf(<<"12">>)])]
    /\ call[1].in.paths = <<<<"foo", "bar">>, <<"foo">>>>
    /\ call[2].in.paths = <<<<"foo">>, <<"foo", "bar">>>>
    /\ call[1].in.order = <<"foo", "bar">> /\ call[2].in.order = <<"bar", "foo">>
    /\ call[2].in.obj = call[1].in.obj
    /\ call[2].out = call[1].out
    /\ call[1].out.obj = [k \in {"foo"} |-> call[1].in.obj["foo"]]

\* [foo.bar] twice: {foo: {bar: 12, foo: 12}} gives {foo: {bar: 12}}, and that
\* object pruned again is itself
C37_WitnessAgain ==
    /\ Len(call) = 2
    /\ call[1].in.obj = [k \in {"foo"} |-> Obj([j \in {"foo", "bar"} |-> Leaf(<<"12">>)])]
    /\ call[1].in.paths = <<<<"foo", "bar">>>>
    /\ call[1].out.obj = [k \in {"foo"} |-> Obj([j \in {"bar"} |-> Leaf(<<"12">>)])]
    /\ call[2].in.obj = call[1].out.obj
    /\ call[2].out.obj = call[1].out.obj


\* whether a string has a slash
HasSlash(str) == \E i \in 1..Len(str) : str[i] = "/"

\* C38: two objects that differ in group, version and kind, in namespace or in name
\* have different cache keys.
C38_KeysInjective ==
    \A i \in 1..Len(call), j \in 1..Len(call) :
        KeyParts(call[i].in) # KeyParts(call[j].in) => call[i].out # call[j].out

\* C38 for the names the API server accepts: objects without a slash in namespace
\* and name that differ in group, version and kind, in namespace or in name have
\* different cache keys.
C38_KeysInjectiveWithoutSlash ==
    \A i \in 1..Len(call), j \in 1..Len(call) :
        (/\ KeyParts(call[i].in) # KeyParts(call[j].in)
         /\ \A o \in {call[i].in, call[j].in} :
               ~HasSlash(GetNamespace(o)) /\ ~HasSlash(GetName(o)))
            => call[i].out # call[j].out

\* namespace n with name 1/a and namespace n/1 with name a: one key
C38_Collision ==
    /\ Len(call) = 2
    /\ GetNamespace(call[1].in) = <<"n">> /\ GetName(call[1].in) = <<"1", "/", "a">>
    /\ GetNamespace(call[2].in) = <<"n", "/", "1">> /\ GetName(call[2].in) = <<"a">>
    /\ call[1].out = call[2].out


(***************************************************************************)
(* Properties of events that are no change.  SpecOthers: one entity, with  *)
(* bookmarks and errors among its events.                                  *)
(***************************************************************************)
\* the cache holds the same objects, seen at the same times, under the same keys
SameCache ==
    /\ DOMAIN resources' = DOMAIN resources
    /\ \A k \in DOMAIN resources :
           Cached(resources', heap', k) = Cached(resources, heap, k)

\* C39: a goroutine that receives a bookmark, and one that goes on after it, leaves
\* the cache as it is; Print has made no call for the bookmark and PrintDiff has not
\* run; the goroutine is at the return of Print or back at the channel, and from
\* the return of Print it goes back to the channel.
C39_OtherTypesDoNothing ==
    [][\A g \in Goroutines :
          (\/ note'[g].type = "BOOKMARK" /\ note'[g].seq # note[g].seq
           \/ note[g].type = "BOOKMARK" /\ pc[g] # "Watch.range" /\ pc'[g] # pc[g]) =>
              /\ SameCache
              /\ note'[g].calls = <<>> /\ ~note'[g].rendered /\ note'[g].out = <<>>
              /\ lock' = lock
              /\ pc'[g] = IF note'[g].type = "BOOKMARK" /\ note'[g].dispatched
                          THEN "Print.return" ELSE "Watch.range"]_vars

\* an Added notification and a bookmark went through Print, and the Modified
\* notification after them is rendered against the entry of the Added one
C39_Witness ==
    /\ args = "stalk"
    /\ lastNote[NoIdentity("g1")].type = "BOOKMARK"
    /\ ~lastNote[NoIdentity("g1")].rendered
    /\ note["g1"].type = "MODIFIED" /\ note["g1"].seq = 3 /\ note["g1"].rendered
    /\ note["g1"].old # GoNil
    /\ lastNote[IdA].type = "ADDED"
    /\ note["g1"].old = lastNote[IdA].snapshot


\* C40: once the differ is made, word highlighting is disabled in its themes, and in
\* the theme of every block printed, exactly when --diff-by-line was given.
C40_GranularityFollowsOption ==
    /\ process.main \notin {"Validate", "NewDiffer", "exit"} =>
           \A theme \in {opt.CreateColorTheme, opt.UpdateColorTheme, opt.DeleteColorTheme} :
               theme.wordDiff <=> ~Flags(args).disableWordDiff
    /\ \A g \in Goroutines :
           \A b \in 1..Len(note[g].out) :
               note[g].out[b].colorTheme.wordDiff <=> ~Flags(args).disableWordDiff

\* stalk without --diff-by-line has printed a block without word highlighting
C40_LineLevelByDefault ==
    /\ args = "stalk"
    /\ ~Flags(args).disableWordDiff
    /\ note["g1"].type = "MODIFIED" /\ note["g1"].rendered /\ Len(note["g1"].out) = 1
    /\ ~note["g1"].out[1].colorTheme.wordDiff


==============================================================================
